---- MODULE Spec2Model ----
(***************************************************************************)
(* A model of the spliterator library: the delimiter search               *)
(* (CharacterSequence), the range queue (IndexQueue), the growable buffer  *)
(* (BufferController), the synchronous Spliterator and the asynchronous    *)
(* AsyncSpliterator.  Byte arrays are sequences of numbers; the code's     *)
(* 0-based indices are kept, and translated where a sequence is indexed.   *)
(***************************************************************************)
EXTENDS Integers, Sequences, FiniteSets, TLC

VARIABLES
    kind,       \* which class was constructed: "sync" | "quoted" | "async"
    init,       \* the init options handed to the constructor
    source,     \* the source bytes
    chunks,     \* the division of the source into the chunks the stream yields
    sp,         \* the spliterator object (its private fields)
    emitted,    \* the records the iterator has handed out so far, in order
    result,     \* how the last next() ended: "none" | "value" | "done" | "TypeError" | "RangeError"
    history,    \* the calls made besides a first run of next(): return(), dispose, next() after done
    ranges      \* for each record of emitted, the byte range it was cut from, in source coordinates

vars == <<kind, init, source, chunks, sp, emitted, result, history, ranges>>

----------------------------------------------------------------------------
(* Bounds of the model *)

MaxLen == 5         \* longest source, one-byte delimiter
MaxLenCRLF == 3     \* longest source, two-byte delimiter
MaxDrop == 1        \* largest init.drop
MaxTake == 2        \* largest finite init.take
MaxPieces == 2      \* most delimiters in a source built of records
MaxReturns == 2     \* most calls of return() on one iterator
MaxDisposes == 1    \* most calls of [Symbol.asyncDispose]() on one iterator
MaxLateCalls == 1   \* most calls of next() after next() reported done
MaxNegative == 1    \* how far below zero init.drop and init.take go

(* Program constants *)

LineFeed == 10
CarriageReturn == 13
DoubleQuote == 34
SyncHighWaterMark == 4096
AsyncHighWaterMark == 65536

----------------------------------------------------------------------------
(* Small helpers for JavaScript values *)

Max(a, b) == IF a >= b THEN a ELSE b
Min(a, b) == IF a <= b THEN a ELSE b
SetMax(S) == CHOOSE x \in S : \A y \in S : y <= x

\* An optional value: << >> is undefined, <<v>> is v.
None == << >>
Some(v) == <<v>>

\* haystack[i] for a 0-based index; -1 stands for undefined.
Undefined == -1
At(arr, i) == IF i >= 0 /\ i < Len(arr) THEN arr[i + 1] ELSE Undefined

\* TypedArray.prototype.subarray(begin, end): relative negative indices,
\* clamping to the array, empty when end <= begin.
RelIndex(len, i) == IF i < 0 THEN Max(len + i, 0) ELSE Min(i, len)
SubArray(arr, begin, end) ==
    LET b == RelIndex(Len(arr), begin)
        e == RelIndex(Len(arr), end)
    IN  IF e <= b THEN << >> ELSE SubSeq(arr, b + 1, e)

----------------------------------------------------------------------------
(* CharacterSequence: the encoded delimiter and its search *)

\* A jump table that was filled with the length and never refined
SkipIndex_Full(needle, b) == Len(needle)

\* #skipIndex[b] as the constructor builds it: the length by default, and
\* length - 1 - i for the last i < length - 1 holding b.
SkipIndex(needle, b) ==
    LET n == Len(needle)
        at == {i \in 0..(n - 2) : needle[i + 1] = b}
    IN  IF at = {} THEN n ELSE n - 1 - SetMax(at)

\* The right-to-left comparison of the window at startIndex.
WindowMatches(needle, haystack, startIndex) ==
    \A l \in 0..(Len(needle) - 1) : needle[l + 1] = At(haystack, startIndex + l)

RECURSIVE SearchLoop(_, _, _, _)
SearchLoop(needle, haystack, startIndex, end) ==
    IF startIndex > end - Len(needle) THEN -1
    ELSE IF WindowMatches(needle, haystack, startIndex) THEN startIndex
    ELSE LET last == At(haystack, startIndex + Len(needle) - 1)
         IN  IF last = Undefined
             THEN -1    \* startIndex += undefined gives NaN: the loop ends
             ELSE SearchLoop(needle, haystack, startIndex + SkipIndex(needle, last), end)

\* A search that runs to the end of the haystack whatever end it is given
CharacterSequence_search_Unbounded(needle, haystack, start, end) ==
    SearchLoop(needle, haystack, start, Len(haystack))

CharacterSequence_search(needle, haystack, start, end) ==
    SearchLoop(needle, haystack, start, end)

\* search(haystack, start) with end defaulted to haystack.length
SearchToEnd(needle, haystack, start) ==
    CharacterSequence_search(needle, haystack, start, Len(haystack))

----------------------------------------------------------------------------
(* IndexQueue: FIFO of byte ranges with a cached byte length *)

IndexQueue_new == [tuples |-> << >>, byteLength |-> 0]

IndexQueue_size(q) == Len(q.tuples)

\* An enqueue that leaves the cached byte length as it was
IndexQueue_enqueue_Uncounted(q, tuple) ==
    [tuples |-> Append(q.tuples, tuple), byteLength |-> q.byteLength]

IndexQueue_enqueue(q, tuple) ==
    [tuples |-> Append(q.tuples, tuple),
     byteLength |-> q.byteLength + (tuple[2] - tuple[1])]

\* dequeue: the queue afterwards, and the range taken (None on an empty queue)
\* A dequeue that hands out the tuple enqueued last
IndexQueue_dequeue_Last(q) ==
    IF Len(q.tuples) = 0
    THEN [queue |-> q, tuple |-> None]
    ELSE LET last == q.tuples[Len(q.tuples)]
         IN  [queue |-> [tuples |-> SubSeq(q.tuples, 1, Len(q.tuples) - 1),
                         byteLength |-> q.byteLength - (last[2] - last[1])],
              tuple |-> Some(last)]

IndexQueue_dequeue(q) ==
    IF Len(q.tuples) = 0
    THEN [queue |-> q, tuple |-> None]
    ELSE [queue |-> [tuples |-> Tail(q.tuples),
                     byteLength |-> q.byteLength - (Head(q.tuples)[2] - Head(q.tuples)[1])],
          tuple |-> Some(Head(q.tuples))]

IndexQueue_peekLast(q) ==
    IF Len(q.tuples) = 0 THEN None ELSE Some(q.tuples[Len(q.tuples)])

IndexQueue_clear(q) == IndexQueue_new

----------------------------------------------------------------------------
(* Init options shared by the constructors *)

\* Math.max(init.take ?? Infinity, 0) + yieldDropCount; None stands for Infinity
\* A drop count taken as given, without the Math.max against zero
YieldDropCount_Raw(i) == i.drop

YieldDropCount(i) == Max(0, i.drop)

\* A stop count that forgets the dropped records: take counted from the
\* first record read rather than from the first record emitted.
YieldStopCount_NoDrop(i) ==
    IF i.take = None THEN None ELSE Some(Max(i.take[1], 0))

YieldStopCount(i) ==
    IF i.take = None THEN None ELSE Some(Max(i.take[1], 0) + YieldDropCount(i))

\* yieldCount >= yieldStopCount
StopReached(s) == s.yieldStopCount # None /\ s.yieldCount >= s.yieldStopCount[1]

----------------------------------------------------------------------------
(* Spliterator (src/lib/Spliterator.ts): the synchronous iterator *)

Spliterator_new(src, i) ==
    [source |-> src,
     needle |-> i.delimiter,
     readPosition |-> i.position,
     highWaterMark |-> Max(Len(i.delimiter) * 4, SyncHighWaterMark),
     yieldDropCount |-> YieldDropCount(i),
     yieldStopCount |-> YieldStopCount(i),
     skipEmpty |-> i.skipEmpty,
     indices |-> IndexQueue_new,
     yieldedByteLength |-> 0,
     yieldCount |-> 0,
     lastByteRangeSeen |-> None,
     done |-> FALSE]

\* The branch of #fill taken when readPosition === source.byteLength
Spliterator_fillAtEnd(s) ==
    LET n == Len(s.source)
        d == Len(s.needle)
        lastByteRange == s.lastByteRangeSeen
        lastByteIndex == lastByteRange[1][2]
        possibleDelimiterIndex == SearchToEnd(s.needle, s.source, n - d)
        queued ==
            IF lastByteRange # None
            THEN IF lastByteIndex < n
                 THEN IF possibleDelimiterIndex # -1
                      THEN IndexQueue_enqueue(s.indices, <<possibleDelimiterIndex + d, n>>)
                      ELSE IndexQueue_enqueue(s.indices, <<lastByteIndex + d, n>>)
                 ELSE s.indices
            ELSE IF s.yieldCount = 0
                 THEN IndexQueue_enqueue(s.indices, <<0, n>>)
                 ELSE s.indices
    IN  [s EXCEPT !.indices = queued, !.done = TRUE]

\* The while loop of #fill
RECURSIVE Spliterator_fillLoop(_)
Spliterator_fillLoop(s) ==
    IF s.readPosition < Len(s.source) /\ s.indices.byteLength < s.highWaterMark
    THEN LET delimiterIndex == SearchToEnd(s.needle, s.source, s.readPosition)
         IN  IF delimiterIndex = -1
             THEN s
             ELSE Spliterator_fillLoop(
                    [s EXCEPT !.indices = IndexQueue_enqueue(@, <<s.readPosition, delimiterIndex>>),
                              !.readPosition = delimiterIndex + Len(s.needle)])
    ELSE s

Spliterator_fill(s) ==
    IF s.readPosition = Len(s.source)
    THEN Spliterator_fillAtEnd(s)
    ELSE Spliterator_fillLoop(s)

\* next(): the object afterwards, how the call ended and the slice returned.
\* Destructuring the undefined range of an empty queue throws a TypeError.
RECURSIVE Spliterator_next(_)
Spliterator_next(s) ==
    IF s.done \/ StopReached(s)
    THEN [state |-> s, result |-> "done", value |-> << >>]
    ELSE LET filled == IF IndexQueue_size(s.indices) = 0 THEN Spliterator_fill(s) ELSE s
             taken == IndexQueue_dequeue(filled.indices)
             seen == [filled EXCEPT !.indices = taken.queue,
                                    !.lastByteRangeSeen = taken.tuple]
         IN  IF taken.tuple = None
             THEN [state |-> seen, result |-> "TypeError", value |-> << >>]
             ELSE LET start == taken.tuple[1][1]
                      end == taken.tuple[1][2]
                      slice == SubArray(seen.source, start, end)
                      counted == [seen EXCEPT !.yieldCount = @ + 1]
                  IN  IF Len(slice) = 0 /\ seen.skipEmpty
                      THEN Spliterator_next(seen)
                      ELSE IF counted.yieldCount <= counted.yieldDropCount
                           THEN Spliterator_next(counted)
                           ELSE [state |-> [counted EXCEPT !.yieldedByteLength = @ + (end - start)],
                                 result |-> "value",
                                 value |-> slice]

----------------------------------------------------------------------------
(* Spliterator (src/lib/AsyncSpliterator.ts:631): the synchronous iterator  *)
(* with the double-quote scan and a separate #drain                         *)

SpliteratorQ_new(src, i) ==
    [source |-> src,
     needle |-> i.delimiter,
     doubleQuoteSequence |-> <<DoubleQuote>>,
     readPosition |-> i.position,
     highWaterMark |-> Max(Len(i.delimiter) * 4, SyncHighWaterMark),
     yieldDropCount |-> YieldDropCount(i),
     yieldStopCount |-> YieldStopCount(i),
     skipEmpty |-> i.skipEmpty,
     indices |-> IndexQueue_new,
     yieldedByteLength |-> 0,
     yieldCount |-> 0,
     doubleQuoteStartIndex |-> -1,
     previousByteRange |-> None,
     done |-> FALSE]

SpliteratorQ_drain(s) ==
    LET n == Len(s.source)
        d == Len(s.needle)
        lastByteRange == s.previousByteRange
        lastByteIndex == lastByteRange[1][2]
        possibleDelimiterIndex == SearchToEnd(s.needle, s.source, n - d)
        queued ==
            IF lastByteRange # None
            THEN IF possibleDelimiterIndex # -1
                 THEN IndexQueue_enqueue(s.indices, <<possibleDelimiterIndex + d, n>>)
                 ELSE IndexQueue_enqueue(s.indices, <<lastByteIndex + d, n>>)
            ELSE IF s.yieldCount = 0
                 THEN IndexQueue_enqueue(s.indices, <<0, n>>)
                 ELSE s.indices
    IN  [s EXCEPT !.indices = queued, !.done = TRUE]

\* The inner while (true) of #fill.  found is FALSE when no delimiter is left
\* (#fill returns), else range is the byte range to enqueue.
RECURSIVE SpliteratorQ_scan(_, _, _)
SpliteratorQ_scanned(s, sliceStart, delimiterIndex, nextDoubleQuoteIndex) ==
    IF delimiterIndex = -1
    THEN [state |-> s, found |-> FALSE, range |-> << >>]
    ELSE IF nextDoubleQuoteIndex = -1 /\ s.doubleQuoteStartIndex = -1
    THEN [state |-> [s EXCEPT !.readPosition = delimiterIndex + Len(s.needle)],
          found |-> TRUE,
          range |-> <<sliceStart, delimiterIndex>>]
    ELSE IF nextDoubleQuoteIndex # -1 /\ s.doubleQuoteStartIndex = -1
    THEN SpliteratorQ_scan([s EXCEPT !.doubleQuoteStartIndex = nextDoubleQuoteIndex],
                           delimiterIndex + 1, sliceStart)
    ELSE [state |-> [s EXCEPT !.readPosition = delimiterIndex + Len(s.needle),
                              !.doubleQuoteStartIndex = -1],
          found |-> TRUE,
          range |-> <<IF nextDoubleQuoteIndex # -1
                      THEN s.doubleQuoteStartIndex + 1
                      ELSE sliceStart,
                      delimiterIndex - 1>>]

\* The search for the next double quote, up to the delimiter found
SpliteratorQ_quoteSearch(s, delimiterSearchStart, sliceStart, delimiterIndex) ==
    SpliteratorQ_scanned(s, sliceStart, delimiterIndex,
        CharacterSequence_search(s.doubleQuoteSequence, s.source,
                                 delimiterSearchStart, delimiterIndex))

SpliteratorQ_scan(s, delimiterSearchStart, sliceStart) ==
    SpliteratorQ_quoteSearch(s, delimiterSearchStart, sliceStart,
        SearchToEnd(s.needle, s.source, delimiterSearchStart))

\* The outer while loop of #fill
RECURSIVE SpliteratorQ_fill(_)
SpliteratorQ_filled(scan) ==
    IF scan.found
    THEN SpliteratorQ_fill(
            [scan.state EXCEPT !.indices = IndexQueue_enqueue(@, scan.range)])
    ELSE scan.state

SpliteratorQ_fill(s) ==
    IF s.readPosition < Len(s.source) /\ s.indices.byteLength < s.highWaterMark
    THEN SpliteratorQ_filled(SpliteratorQ_scan(s, s.readPosition, s.readPosition))
    ELSE s

RECURSIVE SpliteratorQ_next(_)
\* The range taken off the queue: the end, an empty slice to skip, a record to
\* drop, or the record to yield
SpliteratorQ_dequeued(drained, taken) ==
    LET seen == [drained EXCEPT !.indices = taken.queue,
                                !.previousByteRange = taken.tuple]
    IN  IF taken.tuple = None
        THEN [state |-> [seen EXCEPT !.done = TRUE], result |-> "done", value |-> << >>]
        ELSE LET start == taken.tuple[1][1]
                 end == taken.tuple[1][2]
                 slice == SubArray(seen.source, start, end)
                 counted == [seen EXCEPT !.yieldCount = @ + 1]
             IN  IF Len(slice) = 0 /\ seen.skipEmpty
                 THEN SpliteratorQ_next(seen)
                 ELSE IF counted.yieldCount <= counted.yieldDropCount
                      THEN SpliteratorQ_next(counted)
                      ELSE [state |-> [counted EXCEPT !.yieldedByteLength = @ + (end - start)],
                            result |-> "value",
                            value |-> slice]

SpliteratorQ_drained(drained) ==
    SpliteratorQ_dequeued(drained, IndexQueue_dequeue(drained.indices))

SpliteratorQ_filledQueue(filled) ==
    SpliteratorQ_drained(IF IndexQueue_size(filled.indices) = 0
                         THEN SpliteratorQ_drain(filled) ELSE filled)

SpliteratorQ_next(s) ==
    IF s.done \/ StopReached(s)
    THEN [state |-> s, result |-> "done", value |-> << >>]
    ELSE SpliteratorQ_filledQueue(IF IndexQueue_size(s.indices) = 0
                                  THEN SpliteratorQ_fill(s) ELSE s)

----------------------------------------------------------------------------
(* BufferController: the growable buffer of the asynchronous spliterator *)

Zeros(n) == [k \in 1..n |-> 0]

BufferController_new(initialBufferSize) ==
    [initialBufferSize |-> initialBufferSize,
     bytes |-> Zeros(initialBufferSize),
     bytesWritten |-> 0,
     discarded |-> 0]    \* how many bytes compress has cut off the front so far

BufferController_byteLengthMinimum(c) == Max(c.bytesWritten, c.initialBufferSize)

\* A grow that allocates the new array and copies nothing into it
BufferController_grow_Fresh(c, desiredByteLength) ==
    IF desiredByteLength <= Len(c.bytes)
    THEN c
    ELSE [c EXCEPT !.bytes = Zeros(desiredByteLength)]

BufferController_grow(c, desiredByteLength) ==
    IF desiredByteLength <= Len(c.bytes)
    THEN c
    ELSE [c EXCEPT !.bytes = @ \o Zeros(desiredByteLength - Len(@))]

\* compress(start) with end left undefined
BufferController_compress(c, start) ==
    LET end == Max(BufferController_byteLengthMinimum(c), Len(c.bytes))
        adjustedBytesWritten == Min(c.bytesWritten, end - start)
    IN  [c EXCEPT !.bytes = SubArray(@, start, end),
                  !.bytesWritten = adjustedBytesWritten,
                  !.discarded = @ + RelIndex(Len(c.bytes), start)]

BufferController_clear(c) ==
    [c EXCEPT !.bytes = [k \in 1..Len(@) |-> IF k <= c.bytesWritten THEN 0 ELSE @[k]],
              !.bytesWritten = 0]

\* subarray(begin, end): ok is FALSE where the code throws a RangeError
BufferController_subarray(c, begin, end) ==
    IF begin > end \/ end > c.bytesWritten
    THEN [ok |-> FALSE, view |-> << >>]
    ELSE [ok |-> TRUE, view |-> SubArray(c.bytes, begin, end)]

BufferController_set(c, array, offset) ==
    LET nextLength == offset + Len(array)
        grown == IF nextLength > Len(c.bytes) THEN BufferController_grow(c, nextLength) ELSE c
    IN  [grown EXCEPT
            !.bytes = [k \in 1..Len(@) |->
                          IF k > offset /\ k <= nextLength THEN array[k - offset] ELSE @[k]],
            !.bytesWritten = IF nextLength > @ THEN nextLength ELSE @]

----------------------------------------------------------------------------
(* AsyncSpliterator: the iterator over a stream of chunks.  chunkReader is  *)
(* what the source has still to yield; pc is "read" while next() is         *)
(* suspended in #read awaiting the source, and "idle" between calls.        *)

AsyncSpliterator_highWaterMark(i) ==
    Max(Len(i.delimiter) * 4,
        IF i.highWaterMark = None THEN AsyncHighWaterMark ELSE i.highWaterMark[1])

AsyncSpliterator_new(chunkIterator, i) ==
    [chunkReader |-> chunkIterator,
     autoDispose |-> IF i.autoDispose = None THEN FALSE ELSE i.autoDispose[1],
     needle |-> i.delimiter,
     highWaterMark |-> AsyncSpliterator_highWaterMark(i),
     yieldDropCount |-> YieldDropCount(i),
     yieldStopCount |-> YieldStopCount(i),
     skipEmpty |-> i.skipEmpty,
     controller |-> BufferController_new(AsyncSpliterator_highWaterMark(i)),
     indices |-> IndexQueue_new,
     lastReadResult |-> "none",
     yieldedByteLength |-> 0,
     yieldCount |-> 0,
     lastByteRangeSeen |-> None,
     done |-> FALSE,
     sourceDisposals |-> 0,
     pc |-> "idle"]

\* #search: enqueue the delimiter positions found after the last queued range
RECURSIVE AsyncSpliterator_searchLoop(_, _)
AsyncSpliterator_searchLoop(s, searchCursor) ==
    IF searchCursor <= s.controller.bytesWritten
    THEN LET delimiterIndex == SearchToEnd(s.needle, s.controller.bytes, searchCursor)
         IN  IF delimiterIndex = -1
             THEN s
             ELSE AsyncSpliterator_searchLoop(
                    [s EXCEPT !.indices = IndexQueue_enqueue(@, <<searchCursor, delimiterIndex>>)],
                    delimiterIndex + Len(s.needle))
    ELSE s

AsyncSpliterator_search(s) ==
    LET lastByteRange == IndexQueue_peekLast(s.indices)
    IN  AsyncSpliterator_searchLoop(s,
            IF lastByteRange # None THEN lastByteRange[1][2] + Len(s.needle) ELSE 0)

\* #read once the source has answered: the next chunk is appended to the
\* buffer, or the end of the stream is recorded
AsyncSpliterator_read(s) ==
    IF Len(s.chunkReader) = 0
    THEN [s EXCEPT !.lastReadResult = "done"]
    ELSE [s EXCEPT !.lastReadResult = "value",
                   !.chunkReader = Tail(@),
                   !.controller = BufferController_set(@, Head(s.chunkReader), @.bytesWritten)]

\* The branch of #fill taken once the source has reported its end
AsyncSpliterator_fillAtEnd(s) ==
    LET d == Len(s.needle)
        written == s.controller.bytesWritten
        lastByteRange == s.lastByteRangeSeen
        lastByteIndex == lastByteRange[1][2]
        possibleDelimiterIndex == SearchToEnd(s.needle, s.controller.bytes, written - d)
        queued ==
            IF lastByteRange # None
            THEN IF lastByteIndex < written
                 THEN IF possibleDelimiterIndex # -1
                      THEN IndexQueue_enqueue(s.indices, <<possibleDelimiterIndex + d, written>>)
                      ELSE IndexQueue_enqueue(s.indices, <<lastByteIndex + d, written>>)
                 ELSE s.indices
            ELSE IF s.yieldCount = 0
                 THEN IndexQueue_enqueue(s.indices, <<0, written>>)
                 ELSE s.indices
    IN  [s EXCEPT !.indices = queued, !.done = TRUE]

\* The start of #fill when the source has not ended: the consumed window is
\* compressed away
AsyncSpliterator_fillCompress(s) ==
    LET nextBufferStart ==
            IF s.lastByteRangeSeen # None
            THEN s.lastByteRangeSeen[1][2] + Len(s.needle)
            ELSE 0
    IN  [s EXCEPT !.controller = BufferController_compress(@, nextBufferStart)]

\* A while loop of #fill that looks only at the end of the source and never at
\* the queued ranges
AsyncSpliterator_fillCondition_Eager(s) == s.lastReadResult # "done"

\* The condition of the while loop of #fill
AsyncSpliterator_fillCondition(s) ==
    s.lastReadResult # "done" /\ s.indices.byteLength < s.highWaterMark

\* source[Symbol.asyncDispose]?.() when autoDispose is set; sourceDisposals
\* counts the calls the source receives
AsyncSpliterator_disposeSource(s) ==
    [s EXCEPT !.sourceDisposals = IF s.autoDispose THEN @ + 1 ELSE @]

\* A #finalize that leaves the iterator open again: #done is reset
AsyncSpliterator_finalize_Reopen(s) ==
    [state |-> [AsyncSpliterator_disposeSource(s) EXCEPT !.pc = "idle", !.done = FALSE],
     result |-> "done",
     value |-> << >>]

\* #finalize: the source is disposed of when autoDispose is set
AsyncSpliterator_finalize(s) ==
    [state |-> [AsyncSpliterator_disposeSource(s) EXCEPT !.pc = "idle"],
     result |-> "done",
     value |-> << >>]

\* return(): #finalize and nothing else
AsyncSpliterator_return(s) == AsyncSpliterator_finalize(s)

\* [Symbol.asyncDispose](): the queue and the buffer are cleared, the source
\* is disposed of when autoDispose is set
AsyncSpliterator_asyncDispose(s) ==
    AsyncSpliterator_disposeSource(
        [s EXCEPT !.indices = IndexQueue_clear(s.indices),
                  !.controller = BufferController_clear(s.controller)])

Pending(s) == [state |-> [s EXCEPT !.pc = "read"], result |-> "pending", value |-> << >>]

RECURSIVE AsyncSpliterator_next(_)
RECURSIVE AsyncSpliterator_afterFill(_)

\* A next() that compresses the buffer behind every range it takes, whether
\* or not further ranges are queued
AsyncSpliterator_afterFill_Compacting(s) ==
    LET taken == IndexQueue_dequeue(s.indices)
        seen == [s EXCEPT !.indices = taken.queue, !.lastByteRangeSeen = taken.tuple]
    IN  IF taken.tuple = None
        THEN AsyncSpliterator_finalize([seen EXCEPT !.done = TRUE])
        ELSE LET slice == BufferController_subarray(seen.controller, taken.tuple[1][1], taken.tuple[1][2])
                 cut == [seen EXCEPT !.controller =
                            BufferController_compress(@, taken.tuple[1][2] + Len(s.needle)),
                                     !.yieldCount = @ + 1,
                                     !.pc = "idle"]
             IN  IF ~slice.ok
                 THEN [state |-> [seen EXCEPT !.pc = "idle"], result |-> "RangeError", value |-> << >>]
                 ELSE [state |-> cut, result |-> "value", value |-> slice.view]

\* next() from the dequeue on, once the queue is non-empty or #fill is over
AsyncSpliterator_afterFill(s) ==
    LET taken == IndexQueue_dequeue(s.indices)
        seen == [s EXCEPT !.indices = taken.queue, !.lastByteRangeSeen = taken.tuple]
    IN  IF taken.tuple = None
        THEN AsyncSpliterator_finalize([seen EXCEPT !.done = TRUE])
        ELSE LET start == taken.tuple[1][1]
                 end == taken.tuple[1][2]
                 slice == BufferController_subarray(seen.controller, start, end)
                 counted == [seen EXCEPT !.yieldCount = @ + 1]
             IN  IF ~slice.ok
                 THEN [state |-> [seen EXCEPT !.pc = "idle"], result |-> "RangeError", value |-> << >>]
                 ELSE IF Len(slice.view) = 0 /\ seen.skipEmpty
                 THEN AsyncSpliterator_next(seen)
                 ELSE IF counted.yieldCount <= counted.yieldDropCount
                 THEN AsyncSpliterator_next(counted)
                 ELSE [state |-> [counted EXCEPT !.yieldedByteLength = @ + (end - start),
                                                 !.pc = "idle"],
                       result |-> "value",
                       value |-> slice.view]

\* next() up to its first suspension or its return
AsyncSpliterator_next(s) ==
    IF s.done \/ StopReached(s)
    THEN AsyncSpliterator_finalize(s)
    ELSE IF IndexQueue_size(s.indices) # 0
    THEN AsyncSpliterator_afterFill(s)
    ELSE IF s.lastReadResult = "done"
    THEN AsyncSpliterator_afterFill(AsyncSpliterator_fillAtEnd(s))
    ELSE LET compressed == AsyncSpliterator_fillCompress(s)
         IN  IF AsyncSpliterator_fillCondition(compressed)
             THEN Pending(compressed)
             ELSE AsyncSpliterator_afterFill(compressed)

\* The rest of next() once the awaited #read has resolved: the search, then
\* the loop of #fill again or the dequeue
AsyncSpliterator_resume(s) ==
    LET searched == AsyncSpliterator_search(AsyncSpliterator_read(s))
    IN  IF AsyncSpliterator_fillCondition(searched)
        THEN Pending(searched)
        ELSE AsyncSpliterator_afterFill(searched)

----------------------------------------------------------------------------
(* toArray(): the iterator run to its end.  records are the slices handed    *)
(* out, result is "done" or the error that ended the run.                    *)

RECURSIVE Spliterator_collect(_, _)
Spliterator_collect(s, records) ==
    LET r == Spliterator_next(s)
    IN  IF r.result = "value"
        THEN Spliterator_collect(r.state, Append(records, r.value))
        ELSE [records |-> records, result |-> r.result]

Spliterator_toArray(s) == Spliterator_collect(s, << >>)

RECURSIVE SpliteratorQ_collect(_, _)
SpliteratorQ_collect(s, records) ==
    LET r == SpliteratorQ_next(s)
    IN  IF r.result = "value"
        THEN SpliteratorQ_collect(r.state, Append(records, r.value))
        ELSE [records |-> records, result |-> r.result]

SpliteratorQ_toArray(s) == SpliteratorQ_collect(s, << >>)

\* Array.fromAsync: every next() is awaited, and every read it awaits is answered
RECURSIVE AsyncSpliterator_collect(_, _)
AsyncSpliterator_collect(s, records) ==
    LET r == IF s.pc = "read" THEN AsyncSpliterator_resume(s) ELSE AsyncSpliterator_next(s)
    IN  IF r.result = "pending"
        THEN AsyncSpliterator_collect(r.state, records)
        ELSE IF r.result = "value"
        THEN AsyncSpliterator_collect(r.state, Append(records, r.value))
        ELSE [records |-> records, result |-> r.result]

AsyncSpliterator_toArray(s) == AsyncSpliterator_collect(s, << >>)

----------------------------------------------------------------------------
(* The inputs of the model *)

Payload == {97}     \* a byte that is neither a delimiter byte nor a quote

Needles == {<<LineFeed>>, <<CarriageReturn, LineFeed>>}

Range(seq) == {seq[k] : k \in 1..Len(seq)}

\* The bytes the sources are made of: the delimiter's bytes, a payload byte
\* and, for the quote-scanning iterator, the double quote.
Alphabet(k, needle) ==
    Payload \cup Range(needle) \cup (IF k = "quoted" THEN {DoubleQuote} ELSE {})

MaxSourceLen(needle) == IF Len(needle) = 1 THEN MaxLen ELSE MaxLenCRLF

Sources(k, needle) ==
    UNION {[1..n -> Alphabet(k, needle)] : n \in 0..MaxSourceLen(needle)}

\* The source cut after the positions in cuts: a sequence of non-empty chunks
RECURSIVE ChunksOf(_, _)
ChunksOf(src, cuts) ==
    IF src = << >> THEN << >>
    ELSE IF cuts = {} THEN <<src>>
    ELSE LET c == CHOOSE x \in cuts : \A y \in cuts : x <= y
         IN  <<SubSeq(src, 1, c)>>
                \o ChunksOf(SubSeq(src, c + 1, Len(src)), {x - c : x \in cuts \ {c}})

Chunkings(src) == {ChunksOf(src, cuts) : cuts \in SUBSET (1..(Len(src) - 1))}

Takes == {None} \cup {Some(t) : t \in 0..MaxTake}

\* init.highWaterMark: below the minimum the constructor enforces, and above it
HighWaterMarks(needle) == {Some(1), Some(4 * Len(needle) + 1)}

InitOptions(k, src, needle) ==
    {i \in [delimiter : {needle},
            position : IF k = "async" THEN {0} ELSE 0..(Len(src) + 1),
            skipEmpty : BOOLEAN,
            drop : 0..MaxDrop,
            take : Takes,
            highWaterMark : IF k = "async" THEN HighWaterMarks(needle) ELSE {None},
            autoDispose : {None}] :
        \* a start position is not combined with drop or take
        i.position = 0 \/ (i.drop = 0 /\ i.take = None)}

Construct(k, src, chunkIterator, i) ==
    CASE k = "sync" -> Spliterator_new(src, i)
      [] k = "quoted" -> SpliteratorQ_new(src, i)
      [] k = "async" -> AsyncSpliterator_new(chunkIterator, i)

----------------------------------------------------------------------------
(* The state machine *)

NoHistory == [returns |-> 0, disposes |-> 0, lateCalls |-> 0]

Init ==
    /\ kind \in {"sync", "quoted", "async"}
    /\ \E needle \in Needles :
          /\ source \in Sources(kind, needle)
          /\ init \in InitOptions(kind, source, needle)
    /\ chunks \in IF kind = "async" THEN Chunkings(source) ELSE {<< >>}
    /\ sp = Construct(kind, source, chunks, init)
    /\ emitted = << >>
    /\ result = "none"
    /\ history = NoHistory
    /\ ranges = << >>

\* The range of the record next() has just returned, in source coordinates:
\* the synchronous iterators index the source, the asynchronous one indexes
\* its buffer, whose first byte lies discarded bytes into the source
SourceRange(s) ==
    CASE kind = "sync" -> s.lastByteRangeSeen[1]
      [] kind = "quoted" -> s.previousByteRange[1]
      [] kind = "async" ->
            <<s.lastByteRangeSeen[1][1] + s.controller.discarded,
              s.lastByteRangeSeen[1][2] + s.controller.discarded>>

\* What a call leaves behind: the object, the outcome, the record handed out
Deliver(r) ==
    /\ sp' = r.state
    /\ result' = r.result
    /\ emitted' = IF r.result = "value" THEN Append(emitted, r.value) ELSE emitted
    /\ ranges' = IF r.result = "value" THEN Append(ranges, SourceRange(r.state)) ELSE ranges
    /\ UNCHANGED <<kind, init, source, chunks>>

\* A call of Spliterator.next()
SyncNext ==
    /\ kind = "sync"
    /\ Deliver(Spliterator_next(sp))
    /\ UNCHANGED history

\* A call of next() on the quote-scanning Spliterator
QuotedNext ==
    /\ kind = "quoted"
    /\ Deliver(SpliteratorQ_next(sp))
    /\ UNCHANGED history

\* A call of AsyncSpliterator.next(), up to its return or its first await
AsyncNext ==
    /\ kind = "async"
    /\ sp.pc = "idle"
    /\ Deliver(AsyncSpliterator_next(sp))
    /\ UNCHANGED history

\* The source answers the read next() is awaiting, and next() runs on
AsyncRead ==
    /\ kind = "async"
    /\ sp.pc = "read"
    /\ Deliver(AsyncSpliterator_resume(sp))
    /\ UNCHANGED history

Next == SyncNext \/ QuotedNext \/ AsyncNext \/ AsyncRead

Spec == Init /\ [][Next]_vars

----------------------------------------------------------------------------
(* The life cycle: next() called again after it reported done, return() and *)
(* [Symbol.asyncDispose]() called between two calls of next().  Sources are *)
(* records joined by line feeds, a record being empty, one byte, or as long *)
(* as the smallest high-water mark, so that #fill can stop before the       *)
(* source is read to its end.                                               *)

RecordOfLength(n) == [k \in 1..n |-> 97]

LifePieces == {<< >>, RecordOfLength(1), RecordOfLength(4 * Len(<<LineFeed>>))}

RECURSIVE JoinPieces(_, _)
JoinPieces(records, needle) ==
    IF Len(records) = 0 THEN << >>
    ELSE IF Len(records) = 1 THEN records[1]
    ELSE records[1] \o needle \o JoinPieces(Tail(records), needle)

LifeSources ==
    {JoinPieces(ps, <<LineFeed>>) :
        ps \in UNION {[1..n -> LifePieces] : n \in 1..(MaxPieces + 1)}}

\* The source delivered whole or in two chunks
LifeChunkings(src) ==
    {ChunksOf(src, cuts) : cuts \in {{}} \cup {{c} : c \in 1..(Len(src) - 1)}}

InitLife ==
    /\ kind \in {"sync", "quoted", "async"}
    /\ source \in LifeSources
    /\ init \in [delimiter : {<<LineFeed>>},
                 position : {0},
                 skipEmpty : BOOLEAN,
                 drop : {0},
                 take : {None, Some(1)},
                 highWaterMark : IF kind = "async" THEN {Some(1)} ELSE {None},
                 autoDispose : IF kind = "async" THEN {None, Some(TRUE), Some(FALSE)}
                               ELSE {None}]
    /\ chunks \in IF kind = "async" THEN LifeChunkings(source) ELSE {<< >>}
    /\ sp = Construct(kind, source, chunks, init)
    /\ emitted = << >>
    /\ result = "none"
    /\ history = NoHistory
    /\ ranges = << >>

\* A call of next(); a call made after next() reported done is counted
CallNext(r) ==
    /\ result = "done" => history.lateCalls < MaxLateCalls
    /\ Deliver(r)
    /\ history' = [history EXCEPT !.lateCalls = IF result = "done" THEN @ + 1 ELSE @]

LifeSyncNext == kind = "sync" /\ CallNext(Spliterator_next(sp))

LifeQuotedNext == kind = "quoted" /\ CallNext(SpliteratorQ_next(sp))

LifeAsyncNext == kind = "async" /\ sp.pc = "idle" /\ CallNext(AsyncSpliterator_next(sp))

\* A call of return() between two calls of next()
LifeReturn ==
    /\ kind = "async"
    /\ sp.pc = "idle"
    /\ history.returns < MaxReturns
    /\ sp' = AsyncSpliterator_return(sp).state
    /\ history' = [history EXCEPT !.returns = @ + 1]
    /\ UNCHANGED <<kind, init, source, chunks, emitted, result, ranges>>

\* A call of [Symbol.asyncDispose]() between two calls of next()
LifeDispose ==
    /\ kind = "async"
    /\ sp.pc = "idle"
    /\ history.disposes < MaxDisposes
    /\ sp' = AsyncSpliterator_asyncDispose(sp)
    /\ history' = [history EXCEPT !.disposes = @ + 1]
    /\ UNCHANGED <<kind, init, source, chunks, emitted, result, ranges>>

NextLife ==
    \/ LifeSyncNext
    \/ LifeQuotedNext
    \/ LifeAsyncNext
    \/ AsyncRead
    \/ LifeReturn
    \/ LifeDispose

SpecLife == InitLife /\ [][NextLife]_vars

----------------------------------------------------------------------------
(* Construction from a delimiter as the caller hands it in.  An input is a   *)
(* record of its JavaScript type and what normalizeCharacterInput reads of  *)
(* it: a number and whether it is an integer, the bytes a string encodes    *)
(* to, the elements of an array-like or iterable object.                    *)

DelimiterInputs ==
    {[type |-> "undefined"], [type |-> "boolean"]}
        \cup [type : {"number"}, integer : BOOLEAN, value : {LineFeed}]
        \cup [type : {"string"}, bytes : {<< >>, <<LineFeed>>, <<CarriageReturn, LineFeed>>}]
        \cup [type : {"object"}, arrayLike : BOOLEAN, iterable : BOOLEAN,
              bytes : {<< >>, <<LineFeed>>}]

\* normalizeCharacterInput: ok is FALSE where it throws a TypeError
normalizeCharacterInput(input) ==
    CASE input.type = "number" ->
            IF input.integer
            THEN [ok |-> TRUE, bytes |-> <<input.value>>]
            ELSE [ok |-> FALSE, bytes |-> << >>]
      [] input.type = "string" -> [ok |-> TRUE, bytes |-> input.bytes]
      [] input.type = "object" ->
            IF input.arrayLike \/ input.iterable
            THEN [ok |-> TRUE, bytes |-> input.bytes]
            ELSE [ok |-> FALSE, bytes |-> << >>]
      [] OTHER -> [ok |-> FALSE, bytes |-> << >>]

\* new CharacterSequence(input): an undefined input is Delimiters.LineFeed
CharacterSequence_new(input) ==
    normalizeCharacterInput(
        IF input.type = "undefined"
        THEN [type |-> "number", integer |-> TRUE, value |-> LineFeed]
        ELSE input)

NotConstructed == [constructed |-> FALSE]

\* new Spliterator(source, init), init.delimiter being the caller's input
Spliterator_construct(src, i) ==
    LET needle == CharacterSequence_new(i.delimiter)
    IN  IF needle.ok
        THEN Spliterator_new(src, [i EXCEPT !.delimiter = needle.bytes])
        ELSE NotConstructed

\* The loop of #fill with a delimiter of no bytes: the search answers the
\* read position itself, an empty range is enqueued, the read position and
\* the queue's byte length stay as they are, and the loop never ends
Spliterator_fillHangs(s) ==
    /\ Len(s.needle) = 0
    /\ s.readPosition < Len(s.source)
    /\ s.indices.byteLength < s.highWaterMark

\* next() gets as far as #fill
Spliterator_nextFills(s) ==
    /\ ~(s.done \/ StopReached(s))
    /\ IndexQueue_size(s.indices) = 0

ConstructSources == UNION {[1..n -> Payload \cup {LineFeed}] : n \in 0..MaxLenCRLF}

InitConstruct ==
    /\ kind = "sync"
    /\ source \in ConstructSources
    /\ init \in [delimiter : DelimiterInputs,
                 position : {0},
                 skipEmpty : BOOLEAN,
                 drop : {0},
                 take : {None},
                 highWaterMark : {None},
                 autoDispose : {None}]
    /\ chunks = << >>
    /\ sp = Spliterator_construct(source, init)
    /\ emitted = << >>
    /\ result = IF sp = NotConstructed THEN "TypeError" ELSE "none"
    /\ history = NoHistory
    /\ ranges = << >>

\* A call of next() that returns or throws
ConstructedNext ==
    /\ sp # NotConstructed
    /\ ~(Spliterator_nextFills(sp) /\ Spliterator_fillHangs(sp))
    /\ Deliver(Spliterator_next(sp))
    /\ UNCHANGED history

\* A call of next() that never returns
ConstructedNextHangs ==
    /\ sp # NotConstructed
    /\ result # "hang"
    /\ Spliterator_nextFills(sp)
    /\ Spliterator_fillHangs(sp)
    /\ result' = "hang"
    /\ UNCHANGED <<kind, init, source, chunks, sp, emitted, history, ranges>>

NextConstruct == ConstructedNext \/ ConstructedNextHangs

SpecConstruct == InitConstruct /\ [][NextConstruct]_vars

----------------------------------------------------------------------------
(* Counts as the caller may hand them in: drop and take below zero too *)

CountSources(k) == UNION {[1..n -> Alphabet(k, <<LineFeed>>)] : n \in 0..MaxLenCRLF}

InitCounts ==
    /\ kind \in {"sync", "quoted", "async"}
    /\ source \in CountSources(kind)
    /\ init \in [delimiter : {<<LineFeed>>},
                 position : {0},
                 skipEmpty : BOOLEAN,
                 drop : (0 - MaxNegative)..MaxDrop,
                 take : {None} \cup {Some(t) : t \in (0 - MaxNegative)..MaxTake},
                 highWaterMark : IF kind = "async" THEN HighWaterMarks(<<LineFeed>>)
                                 ELSE {None},
                 autoDispose : {None}]
    /\ chunks \in IF kind = "async" THEN Chunkings(source) ELSE {<< >>}
    /\ sp = Construct(kind, source, chunks, init)
    /\ emitted = << >>
    /\ result = "none"
    /\ history = NoHistory
    /\ ranges = << >>

SpecCounts == InitCounts /\ [][Next]_vars

----------------------------------------------------------------------------
(* DelimitedChunkReader: byte ranges planned for parallel readers *)

MaxFile == 6        \* longest file handed to the planner
MaxChunks == 3      \* largest init.chunks

SetMin(S) == CHOOSE x \in S : \A y \in S : x <= y

\* fs.read(fileHandle, start, end): the bytes of the file from start up to,
\* not including, end; fewer where the range reaches past either end.
FileSystemProvider_read(file, start, end) ==
    SubSeq(file, Max(start, 0) + 1, Min(end, Len(file)))

\* byteSlice.every((byte, i) => byte === delimiter[i]): true of an empty slice
SliceMatches(byteSlice, delimiter) ==
    \A j \in 1..Len(byteSlice) : byteSlice[j] = delimiter[j]

\* The window keeps init.fs and init.limit ?? Infinity; None is an option
\* the caller did not name, so a limit of None is Infinity.
AsyncSlidingWindow_new(fileHandle, windowInit) ==
    [fileHandle |-> fileHandle,
     fs |-> windowInit.fs,
     limit |-> windowInit.limit,
     delimiter |-> windowInit.delimiter,
     cursor |-> windowInit.position,
     done |-> FALSE]

\* The values of end the scan of next() visits: cursor, cursor + 1, ... below
\* the limit. Without a limit the scan goes on until a read matches, which
\* the empty read at the end of the file does.
AsyncSlidingWindow_scanned(w) ==
    IF w.limit = None THEN w.cursor..Max(w.cursor, Len(w.fileHandle))
    ELSE w.cursor..(w.limit[1] - 1)

ReadThrows(w) == w.fs = None

AsyncSlidingWindow_next(w) ==
    LET lookahead == Len(w.delimiter)
        ends == {end \in AsyncSlidingWindow_scanned(w) :
                    SliceMatches(FileSystemProvider_read(w.fileHandle, end, end + lookahead),
                                 w.delimiter)}
    IN  IF AsyncSlidingWindow_scanned(w) # {} /\ ReadThrows(w)
        THEN [threw |-> TRUE, done |-> FALSE, value |-> <<Undefined, Undefined>>]
        ELSE IF ends # {}
        THEN [threw |-> FALSE, done |-> FALSE, value |-> <<w.cursor, SetMin(ends)>>]
        ELSE IF w.cursor <= w.limit[1] /\ ~w.done
        THEN [threw |-> FALSE, done |-> FALSE, value |-> <<w.cursor, w.limit[1]>>]
        ELSE [threw |-> FALSE, done |-> TRUE, value |-> <<Undefined, Undefined>>]

AsyncSlidingWindow_previous(w) ==
    LET lookahead == Len(w.delimiter)
        starts == {start \in 1..w.cursor :
                      SliceMatches(FileSystemProvider_read(w.fileHandle, start - lookahead, start),
                                   w.delimiter)}
    IN  IF w.cursor > 0 /\ ReadThrows(w)
        THEN [threw |-> TRUE, done |-> FALSE, value |-> <<Undefined, Undefined>>]
        ELSE IF starts # {}
        THEN [threw |-> FALSE, done |-> FALSE,
              value |-> <<SetMax(starts) - lookahead, w.cursor>>]
        ELSE [threw |-> FALSE, done |-> TRUE, value |-> <<Undefined, Undefined>>]

\* init.chunks ?? 2
DesiredChunks(i) == IF i.chunks = None THEN 2 ELSE i.chunks[1]

\* Math.min(Math.max(1, init.chunks ?? 2), byteLimit / delimiterLength, byteLimit).
\* The quotient may be a fraction, so the model keeps desiredSlices multiplied
\* by delimiterLength.
DesiredSlices(i, byteLimit, delimiterLength) ==
    Min(Min(Max(1, DesiredChunks(i)) * delimiterLength, byteLimit),
        byteLimit * delimiterLength)

\* return fallback / return ranges
DelimitedChunkReader_return(s, planned) ==
    [state |-> [s EXCEPT !.pc = "returned", !.ranges = planned],
     result |-> "done",
     value |-> IF planned = << >> THEN <<<<0, s.byteLimit>>>> ELSE planned]

\* i++ and the test of the loop: on to the next pair of windows, or out
DelimitedChunkReader_continue(s, planned) ==
    IF (s.i + 1) * s.delimiterLength < s.desiredSlices
    THEN [state |-> [s EXCEPT !.i = @ + 1, !.ranges = planned],
          result |-> "pending", value |-> << >>]
    ELSE DelimitedChunkReader_return(s, planned)

\* From the call to the first pair of windows, or to the return
DelimitedChunkReader_fromAsync(file, i) ==
    LET byteLimit == IF i.limit = None THEN Len(file) ELSE i.limit[1]
        delimiterLength == Len(i.delimiter)
        desiredSlices == DesiredSlices(i, byteLimit, delimiterLength)
        s == [pc |-> "awaiting",
              byteLimit |-> byteLimit,
              delimiterLength |-> delimiterLength,
              desiredSlices |-> desiredSlices,
              chunkSize |-> IF desiredSlices = 0 THEN Undefined
                            ELSE (byteLimit * delimiterLength) \div desiredSlices,
              i |-> 0,
              ranges |-> << >>]
    IN  IF desiredSlices = delimiterLength
        THEN DelimitedChunkReader_return(s, << >>)
        ELSE IF 0 < desiredSlices
        THEN [state |-> s, result |-> "pending", value |-> << >>]
        ELSE DelimitedChunkReader_return(s, << >>)

\* One pass of the loop, from its two windows to the next pass or the return
DelimitedChunkReader_pass(s, file, i) ==
    LET d == s.delimiterLength
        previousSlice == IF s.i >= 1 /\ s.i <= Len(s.ranges) THEN s.ranges[s.i]
                         ELSE <<0, 0>>
        chunkEnd == Min(s.i * s.chunkSize, s.byteLimit)
        searchStart == Max(chunkEnd - d * 2, previousSlice[2])
        searchEnd == Min(chunkEnd + d * 2, s.byteLimit)
        windowInit == [delimiter |-> i.delimiter,
                       position |-> searchStart,
                       byteLength |-> searchEnd,
                       limit |-> None,
                       fs |-> i.fs]
        previousRange == AsyncSlidingWindow_previous(AsyncSlidingWindow_new(file, windowInit))
        nextRange == AsyncSlidingWindow_next(AsyncSlidingWindow_new(file, windowInit))
        fixed == [s.ranges EXCEPT ![s.i][2] = previousRange.value[1] - d]
    IN  IF previousRange.threw \/ nextRange.threw
        THEN [state |-> [s EXCEPT !.pc = "returned"], result |-> "TypeError",
              value |-> << >>]
        ELSE IF s.i = 0
        THEN DelimitedChunkReader_continue(s, Append(s.ranges, nextRange.value))
        ELSE IF previousRange.done \/ nextRange.done
        THEN DelimitedChunkReader_return(s, s.ranges)
        ELSE IF s.i * d = s.desiredSlices - d
        THEN DelimitedChunkReader_return(
                 s, Append(fixed, <<previousRange.value[1] + d, s.byteLimit>>))
        ELSE DelimitedChunkReader_continue(
                 s, Append(fixed, <<previousRange.value[1] + d, nextRange.value[2]>>))

\* A file of 1000 bytes whose line feeds are at 100, 250, 500 and 750
ExampleFile ==
    [k \in 1..1000 |-> IF (k - 1) \in {100, 250, 500, 750} THEN LineFeed ELSE 97]

PlannerFiles(needle) ==
    UNION {[1..n -> Payload \cup Range(needle)] : n \in 0..MaxFile}

\* The provider the windows read through: the planner names none (None), and
\* a window that reads the planner's own file is Some("file").
Providers == {None, Some("file")}

InitPlanner ==
    /\ kind = "planner"
    /\ init \in [delimiter : Needles,
                 chunks : {None} \cup {Some(n) : n \in 1..MaxChunks},
                 limit : {None},
                 fs : Providers]
    /\ \/ source \in PlannerFiles(init.delimiter)
       \/ source = ExampleFile /\ init.delimiter = <<LineFeed>>
    /\ chunks = << >>
    /\ sp = [pc |-> "called"]
    /\ emitted = << >>
    /\ result = "none"
    /\ history = NoHistory
    /\ ranges = << >>

PlannerStep(r) ==
    /\ sp' = r.state
    /\ result' = r.result
    /\ ranges' = r.value
    /\ UNCHANGED <<kind, init, source, chunks, emitted, history>>

PlannerCall ==
    /\ kind = "planner"
    /\ sp.pc = "called"
    /\ PlannerStep(DelimitedChunkReader_fromAsync(source, init))

PlannerPass ==
    /\ kind = "planner"
    /\ sp.pc = "awaiting"
    /\ PlannerStep(DelimitedChunkReader_pass(sp, source, init))

NextPlanner == PlannerCall \/ PlannerPass

SpecPlanner == InitPlanner /\ [][NextPlanner]_vars

----------------------------------------------------------------------------
(* Column names: smartSnakeCase and normalizeColumnNames *)

\* Strings are sequences of character codes.
MaxName == 2        \* longest header name drawn freely
MaxHeaders == 3     \* most header names in one list

Period == 46
Underscore == 95
Space == 32

IsUpper(c) == c >= 65 /\ c <= 90
IsLower(c) == c >= 97 /\ c <= 122
IsDigit(c) == c >= 48 /\ c <= 57
\* \w of a regular expression
IsWord(c) == IsUpper(c) \/ IsLower(c) \/ IsDigit(c) \/ c = Underscore
ToUpper(c) == IF IsLower(c) THEN c - 32 ELSE c
ToLower(c) == IF IsUpper(c) THEN c + 32 ELSE c

String_toUpperCase(s) == [k \in 1..Len(s) |-> ToUpper(s[k])]

\* name.replace(/([A-Z])(\.+)/g, "$1"): periods that follow a capital go
RECURSIVE DropPeriodsAfterCapitals(_, _, _)
DropPeriodsAfterCapitals(s, k, afterCapital) ==
    IF k > Len(s) THEN << >>
    ELSE IF s[k] = Period /\ afterCapital
    THEN DropPeriodsAfterCapitals(s, k + 1, TRUE)
    ELSE <<s[k]>> \o DropPeriodsAfterCapitals(s, k + 1, IsUpper(s[k]))

\* String.prototype.trim
RECURSIVE String_trim(_)
String_trim(s) ==
    IF s = << >> THEN s
    ELSE IF s[1] = Space THEN String_trim(Tail(s))
    ELSE IF s[Len(s)] = Space THEN String_trim(SubSeq(s, 1, Len(s) - 1))
    ELSE s

\* name.replace(/\W{1,}/g, "_").replace(/_{2,}/g, "_"): every run of non-word
\* characters becomes one underscore, then every run of underscores one
RECURSIVE UnderscoreRuns(_, _, _)
UnderscoreRuns(s, k, out) ==
    IF k > Len(s) THEN out
    ELSE IF ~IsWord(s[k]) \/ s[k] = Underscore
    THEN UnderscoreRuns(s, k + 1,
            IF out # << >> /\ out[Len(out)] = Underscore THEN out
            ELSE Append(out, Underscore))
    ELSE UnderscoreRuns(s, k + 1, Append(out, s[k]))

\* A word of snakeCase begins at k: after a lower-case letter or digit comes a
\* capital, or a capital is followed by a capital and a lower-case letter
WordBreak(s, k) ==
    /\ k >= 2
    /\ \/ (IsLower(s[k - 1]) \/ IsDigit(s[k - 1])) /\ IsUpper(s[k])
       \/ IsUpper(s[k - 1]) /\ IsUpper(s[k]) /\ k + 1 <= Len(s) /\ IsLower(s[k + 1])

\* snakeCase of change-case: the words, in lower case, joined by underscores;
\* whatever is neither a letter nor a digit separates words
RECURSIVE snakeCaseFrom(_, _, _)
snakeCaseFrom(s, k, out) ==
    LET separated == IF out # << >> /\ out[Len(out)] # Underscore
                     THEN Append(out, Underscore) ELSE out
    IN  IF k > Len(s)
        THEN IF out # << >> /\ out[Len(out)] = Underscore
             THEN SubSeq(out, 1, Len(out) - 1) ELSE out
        ELSE IF ~(IsUpper(s[k]) \/ IsLower(s[k]) \/ IsDigit(s[k]))
        THEN snakeCaseFrom(s, k + 1, separated)
        ELSE IF WordBreak(s, k)
        THEN snakeCaseFrom(s, k + 1, Append(separated, ToLower(s[k])))
        ELSE snakeCaseFrom(s, k + 1, Append(out, ToLower(s[k])))

snakeCase(s) == snakeCaseFrom(s, 1, << >>)

smartSnakeCase(name) ==
    LET normalizedName == String_trim(DropPeriodsAfterCapitals(name, 1, FALSE))
    IN  IF String_toUpperCase(normalizedName) = normalizedName
        THEN UnderscoreRuns(name, 1, << >>)
        ELSE snakeCase(normalizedName)

\* `${n}`: the decimal digits of a count
RECURSIVE Digits(_)
Digits(n) == IF n < 10 THEN <<48 + n>> ELSE Digits(n \div 10) \o <<48 + (n % 10)>>

\* `${columnHeader}_${headerCount}`
UniqueColumnName(columnHeader, headerCount) ==
    columnHeader \o <<Underscore>> \o Digits(headerCount)

\* Set.prototype.add on a set that keeps insertion order
OrderedSet_add(distinct, name) ==
    IF name \in {distinct[k] : k \in 1..Len(distinct)} THEN distinct
    ELSE Append(distinct, name)

\* Map.prototype.get(name) ?? 1
CountOf(counts, name) ==
    IF \E e \in counts : e[1] = name
    THEN (CHOOSE e \in counts : e[1] = name)[2] ELSE 1

RECURSIVE normalizeColumnNamesFrom(_, _, _, _)
normalizeColumnNamesFrom(columnHeaders, k, counts, distinctColumns) ==
    IF k > Len(columnHeaders) THEN distinctColumns
    ELSE LET columnHeader == smartSnakeCase(columnHeaders[k])
             headerCount == CountOf(counts, columnHeader) + 1
         IN  IF columnHeader \in {distinctColumns[j] : j \in 1..Len(distinctColumns)}
             THEN normalizeColumnNamesFrom(
                      columnHeaders, k + 1,
                      {e \in counts : e[1] # columnHeader} \cup {<<columnHeader, headerCount>>},
                      OrderedSet_add(distinctColumns,
                                     UniqueColumnName(columnHeader, headerCount)))
             ELSE normalizeColumnNamesFrom(columnHeaders, k + 1, counts,
                                           OrderedSet_add(distinctColumns, columnHeader))

normalizeColumnNames(columnHeaders) ==
    normalizeColumnNamesFrom(columnHeaders, 1, {}, << >>)

\* The header names: every short string of a capital, a lower-case letter, a
\* digit, a period and an underscore, and the names with a counter behind
NameCharacters == {65, 97, 50, Period, Underscore}

ShortNames == UNION {[1..n -> NameCharacters] : n \in 0..MaxName}

HeaderNames == ShortNames \cup {UniqueColumnName(<<c>>, 2) : c \in {65, 97}}

\* The headers "Full Name", "Full Name", "Age"
ExampleHeaders ==
    <<<<70, 117, 108, 108, 32, 78, 97, 109, 101>>,
      <<70, 117, 108, 108, 32, 78, 97, 109, 101>>,
      <<65, 103, 101>>>>

HeaderLists == UNION {[1..n -> HeaderNames] : n \in 0..MaxHeaders} \cup {ExampleHeaders}

InitNames ==
    /\ kind = "names"
    /\ source \in HeaderLists
    /\ init = [passes |-> 2]
    /\ chunks = << >>
    /\ sp = [pc |-> "idle"]
    /\ emitted = << >>
    /\ result = "none"
    /\ history = NoHistory
    /\ ranges = << >>

\* normalizeColumnNames is called on the headers, then on what it returned
NormalizeNames ==
    /\ kind = "names"
    /\ Len(emitted) < init.passes
    /\ emitted' = Append(emitted,
                         normalizeColumnNames(IF emitted = << >> THEN source
                                              ELSE emitted[Len(emitted)]))
    /\ result' = "done"
    /\ UNCHANGED <<kind, init, source, chunks, sp, history, ranges>>

NextNames == NormalizeNames

SpecNames == InitNames /\ [][NextNames]_vars

----------------------------------------------------------------------------
(* The columns of one row: the quote-scanning Spliterator with a comma *)

Comma == 44

\* The row "a,b",c
ExampleRow == <<DoubleQuote, 97, Comma, 98, DoubleQuote, Comma, 99>>

RowSources ==
    UNION {[1..n -> Payload \cup {Comma, DoubleQuote}] : n \in 0..MaxLen} \cup {ExampleRow}

InitColumns ==
    /\ kind = "quoted"
    /\ source \in RowSources
    /\ init \in [delimiter : {<<Comma>>},
                 position : {0},
                 skipEmpty : BOOLEAN,
                 drop : {0},
                 take : {None},
                 highWaterMark : {None},
                 autoDispose : {None}]
    /\ chunks = << >>
    /\ sp = Construct(kind, source, chunks, init)
    /\ emitted = << >>
    /\ result = "none"
    /\ history = NoHistory
    /\ ranges = << >>

NextColumns == QuotedNext

SpecColumns == InitColumns /\ [][NextColumns]_vars

----------------------------------------------------------------------------
(* TextSpliterator and JSONSpliterator: the records decoded, or parsed *)

MaxStageLen == 5    \* longest source handed to a stage

InvalidByte == 255          \* a byte no UTF-8 text holds
ReplacementCharacter == 65533

\* rows.next() as the loop of a stage sees it: settled, whatever the iterator
RECURSIVE AsyncSpliterator_settle(_)
AsyncSpliterator_settle(s) ==
    LET r == IF s.pc = "read" THEN AsyncSpliterator_resume(s) ELSE AsyncSpliterator_next(s)
    IN  IF r.result = "pending" THEN AsyncSpliterator_settle(r.state) ELSE r

Rows_next(k, s) ==
    CASE k = "sync" -> Spliterator_next(s)
      [] k = "quoted" -> SpliteratorQ_next(s)
      [] k = "async" -> AsyncSpliterator_settle(s)

\* decoder.decode(row): the characters of the bytes; a byte that is no text
\* throws when the decoder is fatal and is replaced otherwise
TextDecoder_decode(bytes, fatal) ==
    [ok |-> ~(fatal /\ \E k \in 1..Len(bytes) : bytes[k] >= 128),
     value |-> [k \in 1..Len(bytes) |->
                    IF bytes[k] >= 128 THEN ReplacementCharacter ELSE bytes[k]]]

\* The number a run of digits writes
RECURSIVE NumberOf(_)
NumberOf(digits) ==
    IF digits = << >> THEN 0
    ELSE NumberOf(SubSeq(digits, 1, Len(digits) - 1)) * 10 + (digits[Len(digits)] - 48)

\* JSON.parse(content), for the contents the model draws: a number without
\* sign, fraction or leading zero parses, anything else throws
JSON_parse(content) ==
    LET valid == /\ content # << >>
                 /\ \A k \in 1..Len(content) : content[k] >= 48 /\ content[k] <= 57
                 /\ (Len(content) = 1 \/ content[1] # 48)
    IN  [ok |-> valid, value |-> IF valid THEN NumberOf(content) ELSE 0]

\* A stage whose cursor stays where it is
Stage_advance_Stuck(s) == s

\* rowCursor++
Stage_advance(s) == [s EXCEPT !.rowCursor = @ + 1]

Stage_new(k, src, chunkIterator, i) ==
    [rows |-> Construct(k, src, chunkIterator, i),
     rowCursor |-> 0,
     error |-> None,
     pc |-> "open"]

Stage_closed(s, r, error) ==
    [state |-> [s EXCEPT !.pc = "closed", !.rows = r.state, !.error = error],
     result |-> IF error # None THEN "SyntaxError" ELSE r.result,
     value |-> << >>]

\* What TextSpliterator.from / fromAsync makes of the row r its rows gave
TextSpliterator_row(s, r, decoded) ==
    IF r.result # "value" THEN Stage_closed(s, r, None)
    ELSE IF ~decoded.ok THEN Stage_closed(s, r, Some(s.rowCursor))
    ELSE [state |-> Stage_advance([s EXCEPT !.rows = r.state]),
          result |-> "value",
          value |-> decoded.value]

TextSpliterator_decoded(s, r, fatal) ==
    TextSpliterator_row(s, r, TextDecoder_decode(r.value, fatal))

\* One next() of the generator of TextSpliterator.from / fromAsync
TextSpliterator_next(s, k, fatal) ==
    TextSpliterator_decoded(s, Rows_next(k, s.rows), fatal)

\* What JSONSpliterator.from / fromAsync makes of the row r its rows gave
JSONSpliterator_row(s, r, parsed) ==
    IF r.result # "value" THEN Stage_closed(s, r, None)
    ELSE IF ~parsed.ok THEN Stage_closed(s, r, Some(s.rowCursor))
    ELSE [state |-> Stage_advance([s EXCEPT !.rows = r.state]),
          result |-> "value",
          value |-> parsed.value]

JSONSpliterator_parsed(s, r) ==
    JSONSpliterator_row(s, r, JSON_parse(TextDecoder_decode(r.value, FALSE).value))

\* One next() of the generator of JSONSpliterator.from / fromAsync
JSONSpliterator_next(s, k) ==
    JSONSpliterator_parsed(s, Rows_next(k, s.rows))

StageSources == UNION {[1..n -> {49, InvalidByte, LineFeed}] : n \in 0..MaxStageLen}

InitStages ==
    /\ kind \in {"text", "json"}
    /\ source \in StageSources
    /\ init \in [delimiter : {<<LineFeed>>},
                 position : {0},
                 skipEmpty : BOOLEAN,
                 drop : 0..MaxDrop,
                 take : {None},
                 highWaterMark : {Some(1)},
                 autoDispose : {None},
                 rows : {"sync", "quoted", "async"},
                 fatal : IF kind = "text" THEN BOOLEAN ELSE {FALSE}]
    /\ chunks = IF init.rows = "async" /\ source # << >> THEN <<source>> ELSE << >>
    /\ sp = Stage_new(init.rows, source, chunks, init)
    /\ emitted = << >>
    /\ result = "none"
    /\ history = NoHistory
    /\ ranges = << >>

StageStep(r) ==
    /\ sp' = r.state
    /\ result' = r.result
    /\ emitted' = IF r.result = "value" THEN Append(emitted, r.value) ELSE emitted
    /\ UNCHANGED <<kind, init, source, chunks, history, ranges>>

TextNext ==
    /\ kind = "text"
    /\ sp.pc = "open"
    /\ StageStep(TextSpliterator_next(sp, init.rows, init.fatal))

JSONNext ==
    /\ kind = "json"
    /\ sp.pc = "open"
    /\ StageStep(JSONSpliterator_next(sp, init.rows))

NextStages == TextNext \/ JSONNext

SpecStages == InitStages /\ [][NextStages]_vars

----------------------------------------------------------------------------
(* CharacterSequence.search called by itself *)

MaxNeedle == 3      \* longest delimiter searched for
MaxHaystack == 6    \* longest haystack searched

SearchAlphabet == {97, 98}

SearchNeedles == UNION {[1..n -> SearchAlphabet] : n \in 1..MaxNeedle}

Haystacks == UNION {[1..n -> SearchAlphabet] : n \in 0..MaxHaystack}

InitSearch ==
    /\ kind = "search"
    /\ source \in Haystacks
    /\ init \in [delimiter : SearchNeedles, start : 0..(MaxHaystack + 1)]
    /\ init.start <= Len(source) + 1
    /\ chunks = << >>
    /\ sp = [found |-> Undefined]
    /\ emitted = << >>
    /\ result = "none"
    /\ history = NoHistory
    /\ ranges = << >>

\* needle.search(haystack, start)
Search ==
    /\ kind = "search"
    /\ result = "none"
    /\ sp' = [found |-> SearchToEnd(init.delimiter, source, init.start)]
    /\ result' = "done"
    /\ UNCHANGED <<kind, init, source, chunks, emitted, history, ranges>>

NextSearch == Search

SpecSearch == InitSearch /\ [][NextSearch]_vars

----------------------------------------------------------------------------
(* CharacterSequence.search called with both ends of its window *)

MaxSearched == 5    \* longest haystack searched within a window

SearchedHaystacks == UNION {[1..n -> SearchAlphabet] : n \in 0..MaxSearched}

InitWindow ==
    /\ kind = "window"
    /\ source \in SearchedHaystacks
    /\ init \in [delimiter : SearchNeedles, start : 0..MaxSearched, end : 0..(MaxSearched + 1)]
    /\ init.start <= Len(source)
    /\ init.end <= Len(source) + 1
    /\ chunks = << >>
    /\ sp = [found |-> Undefined]
    /\ emitted = << >>
    /\ result = "none"
    /\ history = NoHistory
    /\ ranges = << >>

\* needle.search(haystack, start, end)
SearchWindow ==
    /\ kind = "window"
    /\ result = "none"
    /\ sp' = [found |-> CharacterSequence_search(init.delimiter, source, init.start, init.end)]
    /\ result' = "done"
    /\ UNCHANGED <<kind, init, source, chunks, emitted, history, ranges>>

NextWindow == SearchWindow

SpecWindow == InitWindow /\ [][NextWindow]_vars

----------------------------------------------------------------------------
(* CSVSpliterator (src/lib/CharacterSequence.ts:293): rows, then columns *)

MaxCSVRows == 3     \* most rows in a CSV source, the header row counted

\* `column_${idx}`
ColumnKey(idx) == <<99, 111, 108, 117, 109, 110, Underscore>> \o Digits(idx)

\* zipSync(a, b): the pairs of a and b with their index; None pads the shorter
zipSync(a, b) ==
    [k \in 1..Max(Len(a), Len(b)) |->
        <<IF k <= Len(a) THEN Some(a[k]) ELSE None,
          IF k <= Len(b) THEN Some(b[k]) ELSE None,
          k - 1>>]

\* Every column takes the key of its index
ZippedKey_Index(z) == ColumnKey(z[3])

\* key ?? `column_${idx}` and transform(value ?? ""), the transform being the
\* identity
ZippedKey(z) == IF z[1] = None THEN ColumnKey(z[3]) ELSE z[1][1]
ZippedValue(z) == IF z[2] = None THEN << >> ELSE z[2][1]

\* CSVSpliteratorEmitters.entries
CSVSpliteratorEmitters_entries(columns, headerColumns) ==
    LET zipped == zipSync(headerColumns, columns)
    IN  [k \in 1..Len(zipped) |-> <<ZippedKey(zipped[k]), ZippedValue(zipped[k]), k - 1>>]

\* CSVSpliteratorEmitters.object: a later entry of a key overwrites an earlier
CSVSpliteratorEmitters_object(columns, headerColumns) ==
    LET zipped == zipSync(headerColumns, columns)
        keys == {ZippedKey(zipped[k]) : k \in 1..Len(zipped)}
    IN  [key \in keys |->
            ZippedValue(zipped[SetMax({k \in 1..Len(zipped) : ZippedKey(zipped[k]) = key})])]

\* emitter ? emitter(columns, transformers) : columns
CSVSpliterator_emit(mode, columns, headerColumns) ==
    CASE mode = "array" -> [mode |-> mode, columns |-> columns]
      [] mode = "entries" ->
            [mode |-> mode, entries |-> CSVSpliteratorEmitters_entries(columns, headerColumns)]
      [] mode = "object" ->
            [mode |-> mode, record |-> CSVSpliteratorEmitters_object(columns, headerColumns)]

\* new Spliterator(row, columnSpliteratorInit).toDecodedArray(decoder); the
\* class is the one the rows come from, the quote-scanning one for async rows
ColumnInit ==
    [delimiter |-> <<Comma>>, position |-> 0, skipEmpty |-> TRUE, drop |-> 0,
     take |-> None, highWaterMark |-> None, autoDispose |-> None]

CSVSpliterator_decoded(run) ==
    [result |-> run.result,
     columns |-> [j \in 1..Len(run.records) |->
                     TextDecoder_decode(run.records[j], FALSE).value]]

CSVSpliterator_columns(k, row) ==
    CSVSpliterator_decoded(
        IF k = "sync" THEN Spliterator_toArray(Spliterator_new(row, ColumnInit))
        ELSE SpliteratorQ_toArray(SpliteratorQ_new(row, ColumnInit)))

\* normalizeKeys as the two generators default it: from leaves it undefined,
\* fromAsync takes mode !== "array"
CSVSpliterator_normalizeKeys(k, i) ==
    IF i.normalizeKeys # None THEN i.normalizeKeys[1]
    ELSE IF k = "csvAsync" THEN i.mode # "array"
    ELSE FALSE

\* take = Infinity, drop = 0; yieldLimit = take + drop
CSVSpliterator_drop(i) == IF i.drop = None THEN 0 ELSE i.drop[1]

CSVSpliterator_belowLimit(i, yieldCount) ==
    i.take = None \/ yieldCount < i.take[1] + CSVSpliterator_drop(i)

\* The rest of the options go to the rows: take and drop do not
CSVSpliterator_rowInit(i) ==
    [delimiter |-> <<LineFeed>>, position |-> 0, skipEmpty |-> TRUE, drop |-> 0,
     take |-> None, highWaterMark |-> i.highWaterMark, autoDispose |-> None]

CSVSpliterator_new(k, src, chunkIterator, i) ==
    [pc |-> "start",
     rows |-> Construct(i.rows, src, chunkIterator, CSVSpliterator_rowInit(i)),
     headers |-> << >>,
     headerRead |-> FALSE,
     yieldCount |-> 0]

CSVSpliterator_close(s, outcome) ==
    [state |-> [s EXCEPT !.pc = "closed"], result |-> outcome, value |-> << >>]

\* The columns of a row within the limits: the split throws, or the row is
\* yielded.  fromAsync counts a row when it is resumed after the yield, which
\* is here the same step.
CSVSpliterator_yield(read, k, i, split) ==
    IF split.result # "done" THEN CSVSpliterator_close(read, split.result)
    ELSE [state |-> IF k = "csvAsync" THEN [read EXCEPT !.yieldCount = @ + 1] ELSE read,
          result |-> "value",
          value |-> CSVSpliterator_emit(i.mode, split.columns, read.headers)]

\* The body of the loop for what the rows gave
RECURSIVE CSVSpliterator_loop(_, _, _)
CSVSpliterator_row(s, k, i, r) ==
    LET read == [s EXCEPT !.rows = r.state, !.pc = "rows"]
    IN  IF r.result # "value" THEN CSVSpliterator_close(read, r.result)
        ELSE IF s.yieldCount < CSVSpliterator_drop(i)
        THEN CSVSpliterator_loop([read EXCEPT !.yieldCount = @ + 1], k, i)
        ELSE IF ~CSVSpliterator_belowLimit(i, s.yieldCount)
        THEN CSVSpliterator_close(read, "done")
        ELSE CSVSpliterator_yield(read, k, i, CSVSpliterator_columns(i.rows, r.value))

\* The loop over the rows, up to the next yield, the return or the throw
CSVSpliterator_loop(s, k, i) ==
    CSVSpliterator_row(s, k, i, Rows_next(i.rows, s.rows))

\* The generator past its header, on its way into the loop
CSVSpliterator_onward(s) == [state |-> s, result |-> "header", value |-> << >>]

\* The names the columns of the header row give
CSVSpliterator_headers(read, k, i, split) ==
    IF split.result # "done" THEN CSVSpliterator_close(read, split.result)
    ELSE CSVSpliterator_onward(
            [read EXCEPT !.headers = IF CSVSpliterator_normalizeKeys(k, i)
                                     THEN normalizeColumnNames(split.columns)
                                     ELSE split.columns,
                         !.headerRead = TRUE])

CSVSpliterator_headerRow(s, k, i, r) ==
    LET read == [s EXCEPT !.rows = r.state]
    IN  IF r.result # "value" THEN CSVSpliterator_close(read, r.result)
        ELSE CSVSpliterator_headers(read, k, i, CSVSpliterator_columns(i.rows, r.value))

\* The first next() begins with the header row, when there is one
CSVSpliterator_begin(s, k, i) ==
    IF s.pc = "start" /\ i.header
    THEN CSVSpliterator_headerRow(s, k, i, Rows_next(i.rows, s.rows))
    ELSE CSVSpliterator_onward(s)

CSVSpliterator_resume(h, k, i) ==
    IF h.state.pc = "closed" THEN h ELSE CSVSpliterator_loop(h.state, k, i)

\* One next() of the generator
CSVSpliterator_next(s, k, i) ==
    CSVSpliterator_resume(CSVSpliterator_begin(s, k, i), k, i)

\* The rows a source is made of: b / Ab,b / b,b,b / Ab,b,
CSVRowPieces ==
    {<<98>>, <<65, 98, Comma, 98>>, <<98, Comma, 98, Comma, 98>>,
     <<65, 98, Comma, 98, Comma>>}

\* Every row of the source ends with a line feed
RECURSIVE JoinRows(_)
JoinRows(rows) ==
    IF rows = << >> THEN << >> ELSE rows[1] \o <<LineFeed>> \o JoinRows(Tail(rows))

CSVSources == {JoinRows(rows) : rows \in UNION {[1..n -> CSVRowPieces] : n \in 0..MaxCSVRows}}

InitCSV ==
    /\ kind \in {"csv", "csvAsync"}
    /\ source \in CSVSources
    /\ init \in [rows : IF kind = "csv" THEN {"sync", "quoted"} ELSE {"sync", "quoted", "async"},
                 highWaterMark : {None, Some(1)},
                 header : BOOLEAN,
                 mode : {"array", "entries", "object"},
                 normalizeKeys : {None, Some(TRUE), Some(FALSE)},
                 take : {None, Some(1)},
                 drop : {None, Some(1)}]
    /\ (init.highWaterMark # None) = (init.rows = "async")
    /\ chunks = IF init.rows = "async" /\ source # << >> THEN <<source>> ELSE << >>
    /\ sp = CSVSpliterator_new(kind, source, chunks, init)
    /\ emitted = << >>
    /\ result = "none"
    /\ history = NoHistory
    /\ ranges = << >>

CSVNext ==
    /\ kind \in {"csv", "csvAsync"}
    /\ sp.pc # "closed"
    /\ StageStep(CSVSpliterator_next(sp, kind, init))

NextCSV == CSVNext

SpecCSV == InitCSV /\ [][NextCSV]_vars

----------------------------------------------------------------------------
(* IndexQueue on its own: enqueue, dequeue and clear in any order *)

MaxQueueOps == 4    \* most operations on one queue
MaxRangeEnd == 2    \* largest index of an enqueued range

\* The byteLength getter: the cached sum of src/unnamed/part_002, or the sum
\* over the tuples that src/lib/DelimitedGenerator.ts computes on each read
RECURSIVE TuplesByteLength(_)
TuplesByteLength(tuples) ==
    IF tuples = << >> THEN 0
    ELSE (Head(tuples)[2] - Head(tuples)[1]) + TuplesByteLength(Tail(tuples))

IndexQueue_byteLength(q, cached) ==
    IF cached THEN q.byteLength ELSE TuplesByteLength(q.tuples)

\* The ranges handed to enqueue, the empty ones among them
QueueRanges == {t \in (0..MaxRangeEnd) \X (0..MaxRangeEnd) : t[1] <= t[2]}

InitQueue ==
    /\ kind = "queue"
    /\ init \in [cached : BOOLEAN]
    /\ source = << >>
    /\ chunks = << >>
    /\ sp = IndexQueue_new
    /\ emitted = << >>
    /\ result = Undefined
    /\ history = [ops |-> 0, missed |-> FALSE, cleared |-> FALSE]
    /\ ranges = << >>

QueueStep(q, taken) ==
    /\ kind = "queue"
    /\ history.ops < MaxQueueOps
    /\ sp' = q
    /\ result' = taken
    /\ UNCHANGED <<kind, init, source, chunks, emitted, ranges>>

QueueEnqueue ==
    \E tuple \in QueueRanges :
        /\ QueueStep(IndexQueue_enqueue(sp, tuple), Undefined)
        /\ history' = [history EXCEPT !.ops = @ + 1]

QueueDequeue ==
    /\ QueueStep(IndexQueue_dequeue(sp).queue, IndexQueue_dequeue(sp).tuple)
    /\ history' = [history EXCEPT !.ops = @ + 1,
                                  !.missed = @ \/ IndexQueue_size(sp) = 0]

QueueClear ==
    /\ QueueStep(IndexQueue_clear(sp), Undefined)
    /\ history' = [history EXCEPT !.ops = @ + 1, !.cleared = TRUE]

NextQueue == QueueEnqueue \/ QueueDequeue \/ QueueClear

SpecQueue == InitQueue /\ [][NextQueue]_vars

----------------------------------------------------------------------------
(* BufferController on its own: its methods called in any order.  The class *)
(* is in src twice: src/unnamed/part_005 (with set) and                      *)
(* src/lib/DelimitedGenerator.ts (without set: its user writes into bytes    *)
(* and raises bytesWritten itself).                                          *)

MaxBufferSize == 1   \* largest initialBufferSize
MaxWrite == 2        \* most bytes written by one call
MaxBufferOps == 3    \* most method calls on one controller

\* compress(start, end) of src/unnamed/part_005, both indices given
BufferController_compressRange(c, start, end) ==
    [c EXCEPT !.bytes = SubArray(@, start, end),
              !.bytesWritten = Min(c.bytesWritten, end - start),
              !.discarded = @ + RelIndex(Len(c.bytes), start)]

\* compress(start?, end?) of src/lib/DelimitedGenerator.ts; None is undefined
BufferControllerG_compress(c, start, end) ==
    LET byteLength == Max(BufferController_byteLengthMinimum(c), Len(c.bytes))
        kept == IF start = None THEN SubArray(c.bytes, 0, byteLength)
                ELSE SubArray(c.bytes, start[1],
                              IF end = None THEN Len(c.bytes) ELSE end[1])
    IN  [c EXCEPT !.bytes = kept,
                  !.bytesWritten = Len(kept),
                  !.discarded = @ + (IF start = None THEN 0
                                     ELSE RelIndex(Len(c.bytes), start[1]))]

\* The compress of the version at hand
Buffer_compress(version, c, start, end) ==
    IF version = "generator" THEN BufferControllerG_compress(c, start, end)
    ELSE IF end = None
    THEN BufferController_compress(c, IF start = None THEN 0 ELSE start[1])
    ELSE BufferController_compressRange(c, IF start = None THEN 0 ELSE start[1], end[1])

\* read() of createByteSequenceSearcher: grow, let the file write at
\* bytesWritten, raise bytesWritten
BufferControllerG_read(c, array) ==
    LET offset == c.bytesWritten
        grown == BufferController_grow(
                    c, Max(BufferController_byteLengthMinimum(c), offset + Len(array)))
    IN  [grown EXCEPT
            !.bytes = [k \in 1..Len(@) |->
                          IF k > offset /\ k <= offset + Len(array)
                          THEN array[k - offset] ELSE @[k]],
            !.bytesWritten = @ + Len(array)]

\* The bytes a call writes
BufferWrites == UNION {[1..n -> {1, 2}] : n \in 0..MaxWrite}

\* The indices a call is given
BufferIndices == 0..(MaxBufferSize + 1)
BufferOptionalIndices == {None} \cup {Some(n) : n \in BufferIndices}

InitBuffer ==
    /\ kind = "buffer"
    /\ init \in [version : {"part_005", "generator"}, initialBufferSize : 1..MaxBufferSize]
    /\ source = << >>
    /\ chunks = << >>
    /\ sp = BufferController_new(init.initialBufferSize)
    /\ emitted = << >>
    /\ result = [op |-> "new"]
    /\ history = [ops |-> 0]
    /\ ranges = << >>

\* A call: the controller afterwards, and the call with the controller before
BufferStep(c, call) ==
    /\ kind = "buffer"
    /\ history.ops < MaxBufferOps
    /\ sp' = c
    /\ result' = call
    /\ history' = [history EXCEPT !.ops = @ + 1]
    /\ UNCHANGED <<kind, init, source, chunks, emitted, ranges>>

BufferSet ==
    \E array \in BufferWrites, offset \in BufferIndices :
        /\ init.version = "part_005"
        /\ BufferStep(BufferController_set(sp, array, offset),
                      [op |-> "set", before |-> sp, array |-> array, offset |-> offset])

BufferRead ==
    \E array \in BufferWrites :
        /\ init.version = "generator"
        /\ BufferStep(BufferControllerG_read(sp, array),
                      [op |-> "read", before |-> sp, array |-> array])

BufferGrow ==
    \E desiredByteLength \in BufferOptionalIndices :
        BufferStep(BufferController_grow(sp, IF desiredByteLength = None THEN Len(sp.bytes) * 2
                                             ELSE desiredByteLength[1]),
                   [op |-> "grow", before |-> sp])

BufferCompress ==
    \E start \in BufferOptionalIndices, end \in BufferOptionalIndices :
        BufferStep(Buffer_compress(init.version, sp, start, end),
                   [op |-> "compress", before |-> sp, start |-> start, end |-> end])

BufferClear ==
    BufferStep(BufferController_clear(sp), [op |-> "clear", before |-> sp])

BufferSubarray ==
    \E begin \in BufferIndices, end \in BufferIndices :
        BufferStep(sp, [op |-> "subarray", before |-> sp, begin |-> begin, end |-> end,
                        returned |-> BufferController_subarray(sp, begin, end)])

NextBuffer ==
    \/ BufferSet
    \/ BufferRead
    \/ BufferGrow
    \/ BufferCompress
    \/ BufferClear
    \/ BufferSubarray

SpecBuffer == InitBuffer /\ [][NextBuffer]_vars

----------------------------------------------------------------------------
(* DelimitedGenerator.from: the generator over an in-memory buffer, built   *)
(* on the synchronous SlidingWindow.  pc is where the generator stands:     *)
(* "start" before its first resumption, "yieldedEmpty" and "yielded" at its *)
(* two yield statements, "returned" once its body is over.                  *)

SlidingWindow_new(src, windowInit) ==
    [source |-> src,
     delimiter |-> windowInit.delimiter,
     cursor |-> windowInit.position,
     limit |-> Len(src),
     done |-> FALSE]

\* delimiter.every((byte, i) => byte === source[end + i])
SlidingWindow_match(w, end) ==
    \A i \in 1..Len(w.delimiter) :
        end + i <= Len(w.source) /\ w.source[end + i] = w.delimiter[i]

\* next(): the range up to the first delimiter at or after the cursor, then
\* once the range up to the limit
SlidingWindow_next(w) ==
    LET ends == {end \in w.cursor..(w.limit - 1) : SlidingWindow_match(w, end)}
    IN  IF ends # {}
        THEN LET end == CHOOSE e \in ends : \A o \in ends : e <= o
             IN  [window |-> [w EXCEPT !.cursor = end + Len(w.delimiter)],
                  range |-> Some(<<w.cursor, end>>)]
        ELSE IF w.cursor <= w.limit /\ ~w.done
        THEN [window |-> [w EXCEPT !.cursor = w.limit, !.done = TRUE],
              range |-> Some(<<w.cursor, w.limit>>)]
        ELSE [window |-> w, range |-> None]

\* The call of from(): nothing of the body has run yet
DelimitedGenerator_from(src, i) ==
    [slidingWindow |-> SlidingWindow_new(src, i),
     take |-> i.take,
     skipEmpty |-> i.skipEmpty,
     drop |-> i.drop,
     taken |-> 0,
     pc |-> "start"]

DelimitedGenerator_return(g) ==
    [state |-> [g EXCEPT !.pc = "returned"], result |-> "done", value |-> << >>]

\* The for loop of from(), from the top of an iteration to the next yield or
\* to the end of the body
RECURSIVE DelimitedGenerator_loop(_)
DelimitedGenerator_loop(g) ==
    LET stepped == SlidingWindow_next(g.slidingWindow)
        moved == [g EXCEPT !.slidingWindow = stepped.window]
    IN  IF stepped.range = None
        THEN DelimitedGenerator_return(moved)
        ELSE LET start == stepped.range[1][1]
                 end == stepped.range[1][2]
                 slice == SubArray(g.slidingWindow.source, start, end)
             IN  IF start = end
                 THEN IF g.skipEmpty
                      THEN DelimitedGenerator_loop(moved)
                      ELSE [state |-> [moved EXCEPT !.pc = "yieldedEmpty"],
                            result |-> "value",
                            value |-> << >>]
                 ELSE IF g.skipEmpty /\ (Len(slice) = 0 \/ slice = g.slidingWindow.delimiter)
                 THEN DelimitedGenerator_loop(moved)
                 ELSE IF g.taken < g.drop
                 THEN DelimitedGenerator_loop(moved)
                 ELSE [state |-> [moved EXCEPT !.pc = "yielded"],
                       result |-> "value",
                       value |-> slice]

\* One resumption of the generator
DelimitedGenerator_next(g) ==
    CASE g.pc = "start" ->
            IF g.slidingWindow.cursor > Len(g.slidingWindow.source) \/ g.take = Some(0)
            THEN DelimitedGenerator_return(g)
            ELSE DelimitedGenerator_loop(g)
      [] g.pc = "yieldedEmpty" ->
            DelimitedGenerator_loop([g EXCEPT !.taken = @ + 1])
      [] g.pc = "yielded" ->
            IF Some(g.taken + 1) = g.take
            THEN DelimitedGenerator_return([g EXCEPT !.taken = @ + 1])
            ELSE DelimitedGenerator_loop([g EXCEPT !.taken = @ + 1])
      [] OTHER -> DelimitedGenerator_return(g)

InitGenerator ==
    /\ kind = "generator"
    /\ \E needle \in Needles :
          /\ source \in Sources(kind, needle)
          /\ init \in [delimiter : {needle},
                       position : 0..(Len(source) + 1),
                       skipEmpty : BOOLEAN,
                       drop : 0..MaxDrop,
                       take : Takes]
    /\ chunks = << >>
    /\ sp = DelimitedGenerator_from(source, init)
    /\ emitted = << >>
    /\ result = "none"
    /\ history = NoHistory
    /\ ranges = << >>

\* The consumer resumes the generator
GeneratorNext ==
    /\ kind = "generator"
    /\ result # "done"
    /\ LET r == DelimitedGenerator_next(sp)
       IN  /\ sp' = r.state
           /\ result' = r.result
           /\ emitted' = IF r.result = "value" THEN Append(emitted, r.value) ELSE emitted
    /\ UNCHANGED <<kind, init, source, chunks, history, ranges>>

NextGenerator == GeneratorNext

SpecGenerator == InitGenerator /\ [][NextGenerator]_vars

----------------------------------------------------------------------------
(* What the claims speak of *)

\* The last next() returned done or threw: the iteration is over
Finished == result \in {"done", "TypeError", "RangeError"}

\* Default counting: nothing dropped, no take limit, reading from the start
PlainRun == init.position = 0 /\ init.drop = 0 /\ init.take = None

\* The delimiter occurs in src at the 0-based position p
OccursAt(src, needle, p) ==
    /\ p >= 0
    /\ p + Len(needle) <= Len(src)
    /\ SubSeq(src, p + 1, p + Len(needle)) = needle

HasDelimiter(src, needle) == \E p \in 0..Len(src) : OccursAt(src, needle, p)

EndsWithDelimiter(src, needle) == OccursAt(src, needle, Len(src) - Len(needle))

\* The pieces of src between the occurrences of the delimiter, scanning from
\* the left: what String.prototype.split gives
RECURSIVE SplitFrom(_, _, _, _)
SplitFrom(src, needle, start, p) ==
    IF p > Len(src) - Len(needle)
    THEN <<SubSeq(src, start + 1, Len(src))>>
    ELSE IF OccursAt(src, needle, p)
    THEN <<SubSeq(src, start + 1, p)>>
            \o SplitFrom(src, needle, p + Len(needle), p + Len(needle))
    ELSE SplitFrom(src, needle, start, p + 1)

Split(src, needle) == SplitFrom(src, needle, 0, 0)

\* The records with one copy of the delimiter between adjacent records
RECURSIVE Join(_, _)
Join(records, needle) ==
    IF Len(records) = 0 THEN << >>
    ELSE IF Len(records) = 1 THEN records[1]
    ELSE records[1] \o needle \o Join(Tail(records), needle)

Last(seq) == seq[Len(seq)]

\* No double quote in the source: the quote scan has nothing to act on
QuoteFree == DoubleQuote \notin Range(source)

\* A fresh iterator of kind k run to its end
RunToEnd(k, src, chunkIterator, i) ==
    CASE k = "sync" -> Spliterator_toArray(Spliterator_new(src, i))
      [] k = "quoted" -> SpliteratorQ_toArray(SpliteratorQ_new(src, i))
      [] k = "async" -> AsyncSpliterator_toArray(AsyncSpliterator_new(chunkIterator, i))

----------------------------------------------------------------------------
(* C1: for every in-memory source and delimiter, the synchronous iterator   *)
(* with skipEmpty=false, drop=0 and no take emits exactly the pieces of     *)
(* splitting the source on the delimiter; joined with the delimiter they    *)
(* give the source back.                                                    *)
C1_SyncEmitsSplit ==
    (kind = "sync" /\ PlainRun /\ ~init.skipEmpty /\ Finished)
        => /\ emitted = Split(source, init.delimiter)
           /\ Join(emitted, init.delimiter) = source

(* C2: for every source, delimiter, chunking and high-water mark, the       *)
(* asynchronous iterator with skipEmpty=false, drop=0 and no take emits, in *)
(* order, exactly the pieces of splitting the source on the delimiter.      *)
C2_AsyncEmitsSplit ==
    (kind = "async" /\ PlainRun /\ ~init.skipEmpty /\ Finished)
        => emitted = Split(source, init.delimiter)

(* C3: with the same source bytes and the same init, the asynchronous       *)
(* iterator emits the records the synchronous iterator emits, however the   *)
(* source is divided into chunks.                                           *)
C3_AsyncEmitsWhatSyncEmits ==
    (kind = "async" /\ Finished)
        => emitted = Spliterator_toArray(Spliterator_new(source, init)).records

(* C4: the number of records emitted is min(take, total - drop) when        *)
(* drop <= total and zero otherwise, total being the number of records the  *)
(* same source yields with drop=0 and no take limit.                        *)
TotalRecords ==
    Len(RunToEnd(kind, source, chunks, [init EXCEPT !.drop = 0, !.take = None]).records)

ExpectedCount ==
    IF init.drop <= TotalRecords
    THEN IF init.take = None
         THEN TotalRecords - init.drop
         ELSE Min(init.take[1], TotalRecords - init.drop)
    ELSE 0

C4_EmittedCount == Finished => Len(emitted) = ExpectedCount

\* a finished run that dropped a record and was then cut short by take
C4_Witness_TakeCuts ==
    /\ Finished
    /\ init.drop = 1
    /\ init.take = Some(1)
    /\ TotalRecords = 3
    /\ Len(emitted) = 1

(* C5: when the source contains a delimiter and does not end with one, the  *)
(* bytes after the last delimiter are the final record emitted, in the      *)
(* synchronous and in the asynchronous iterator.                            *)
C5_TailIsFinalRecord ==
    (/\ kind \in {"sync", "async"}
     /\ PlainRun
     /\ HasDelimiter(source, init.delimiter)
     /\ ~EndsWithDelimiter(source, init.delimiter)
     /\ Finished)
        => /\ result = "done"
           /\ emitted # << >>
           /\ Last(emitted) = Last(Split(source, init.delimiter))

(* C6: a non-empty source without any occurrence of the delimiter yields    *)
(* exactly one record, the entire source, in the synchronous and in the     *)
(* asynchronous iterator.                                                   *)
C6_NoDelimiterOneRecord ==
    (/\ kind \in {"sync", "async"}
     /\ PlainRun
     /\ source # << >>
     /\ ~HasDelimiter(source, init.delimiter)
     /\ Finished)
        => emitted = <<source>>

(* C7: when a CRLF delimiter is split across two consecutive chunks (CR the *)
(* last byte of one, LF the first byte of the next), the asynchronous       *)
(* iterator emits the records it emits when the source arrives in one chunk.*)
CRLF == <<CarriageReturn, LineFeed>>

CRLFSplitAcrossChunks ==
    /\ kind = "async"
    /\ init.delimiter = CRLF
    /\ Len(chunks) = 2
    /\ Last(chunks[1]) = CarriageReturn
    /\ Head(chunks[2]) = LineFeed

C7_SplitCRLFAsOneChunk ==
    (CRLFSplitAcrossChunks /\ PlainRun /\ Finished)
        => emitted = AsyncSpliterator_toArray(AsyncSpliterator_new(<<source>>, init)).records

\* Sources long enough for the queue to reach the high-water mark of a
\* two-byte delimiter: up to MaxPieces + 1 records joined by CRLF, a record
\* being empty, a byte, a stray CR or LF, or as long as the smallest mark.
LongPiece == [k \in 1..(4 * Len(CRLF)) |-> 97]

Pieces == {<< >>, <<98>>, <<CarriageReturn>>, <<LineFeed>>, LongPiece}

PieceSources == {Join(ps, CRLF) : ps \in UNION {[1..n -> Pieces] : n \in 2..(MaxPieces + 1)}}

InitCRLF ==
    /\ kind = "async"
    /\ source \in PieceSources
    /\ init \in [delimiter : {CRLF},
                 position : {0},
                 skipEmpty : BOOLEAN,
                 drop : {0},
                 take : {None},
                 highWaterMark : HighWaterMarks(CRLF),
                 autoDispose : {None}]
    /\ \E p \in 0..(Len(source) - 2) :
          /\ OccursAt(source, CRLF, p)
          /\ chunks = <<SubSeq(source, 1, p + 1), SubSeq(source, p + 2, Len(source))>>
    /\ sp = AsyncSpliterator_new(chunks, init)
    /\ emitted = << >>
    /\ result = "none"
    /\ history = NoHistory
    /\ ranges = << >>

NextCRLF == AsyncNext \/ AsyncRead

SpecCRLF == InitCRLF /\ [][NextCRLF]_vars

(* C8: for a source (without double quotes) that ends with the delimiter, a *)
(* trailing empty record is the last record emitted if and only if          *)
(* skipEmpty is false.                                                      *)
C8_TrailingEmptyRecord ==
    (/\ PlainRun
     /\ QuoteFree
     /\ EndsWithDelimiter(source, init.delimiter)
     /\ Finished)
        => (~init.skipEmpty <=> (emitted # << >> /\ Last(emitted) = << >>))

(* C9: an empty source yields nothing when skipEmpty is true and exactly    *)
(* one empty record when skipEmpty is false, in the synchronous and in the  *)
(* asynchronous iterator.                                                   *)
C9_EmptySource ==
    (/\ kind \in {"sync", "async"}
     /\ PlainRun
     /\ source = << >>
     /\ Finished)
        => emitted = IF init.skipEmpty THEN << >> ELSE << << >> >>

(* C10: when the init position is at or past the end of a (non-empty)       *)
(* source, the synchronous iterator emits no record.                        *)
C10_PositionPastEnd ==
    (/\ kind \in {"sync", "quoted"}
     /\ QuoteFree
     /\ source # << >>
     /\ init.position >= Len(source))
        => emitted = << >>

----------------------------------------------------------------------------
(* C11: after return() has been called on an asynchronous iterator, no      *)
(* further record is emitted and every next() that completes reports done,  *)
(* even if ranges were still queued or chunks were still unread.            *)
C11_DoneAfterReturn ==
    [][(kind = "async" /\ history.returns >= 1)
          => (emitted' = emitted /\ result' \in {result, "pending", "done"})]_vars

(* C12: partial records are never emitted: in every execution, one where    *)
(* the iterator is disposed of or cancelled between two calls of next()     *)
(* included, each emitted record is one of the pieces of the source between *)
(* two consecutive delimiters (or the start or the end of the source).      *)
WholeRecords == Range(Split(source, init.delimiter))

C12_NoPartialRecord ==
    init.position = 0 => \A k \in 1..Len(emitted) : emitted[k] \in WholeRecords

(* C13: the iterator is one-shot: once next() has reported done, by the end *)
(* of the source or by the take limit, every later next() reports done and  *)
(* no record is emitted again.                                              *)
C13_OneShot ==
    [][result = "done" => (result' = "done" /\ emitted' = emitted)]_vars

\* next() was called again after the take limit ended the iteration early
C13_Witness_CalledAfterDone ==
    /\ history.lateCalls >= 1
    /\ result = "done"
    /\ init.take = Some(1)
    /\ Len(emitted) = 1
    /\ Len(Split(source, init.delimiter)) >= 2

(* C14: records are emitted strictly in source order: the range queue hands *)
(* ranges out in the order they were enqueued, and each emitted record      *)
(* starts, in source coordinates, at or after the end of the record emitted *)
(* before it plus the delimiter length.                                     *)
QueuedRanges == sp.indices.tuples

InSourceOrder(rs) ==
    \A k \in 2..Len(rs) : rs[k][1] >= rs[k - 1][2] + Len(init.delimiter)

SourceReleased == kind = "async" /\ sp.autoDispose /\ sp.sourceDisposals >= 1

\* Of the iterator's state, the count of releases is what the source sees
C15_DisposalIdempotent ==
    [][SourceReleased => sp'.sourceDisposals = sp.sourceDisposals]_vars

(* C16: when the autoDispose option is omitted it defaults to true: the     *)
(* asynchronous iterator has disposed of its source once next() has         *)
(* reported done.                                                           *)
C16_AutoDisposeDefault ==
    (kind = "async" /\ init.autoDispose = None /\ result = "done")
        => sp.sourceDisposals >= 1

(* C17: constructing a spliterator with an empty delimiter raises an error  *)
(* at construction, so that no spliterator with a zero-length delimiter is  *)
(* ever iterated.                                                           *)
EmptyDelimiter ==
    LET needle == CharacterSequence_new(init.delimiter)
    IN  needle.ok /\ needle.bytes = << >>

C17_EmptyDelimiterRejected ==
    EmptyDelimiter => (sp = NotConstructed /\ result = "TypeError" /\ emitted = << >>)

(* C18: invalid counts are normalized to zero: a negative take behaves      *)
(* exactly like take = 0 (no record is emitted) and a negative drop behaves *)
(* exactly like drop = 0 (no record is skipped).                            *)
NegativeTake == init.take # None /\ init.take[1] < 0

NegativeDrop == init.drop < 0

ZeroedCounts ==
    [init EXCEPT !.drop = IF NegativeDrop THEN 0 ELSE @,
                 !.take = IF NegativeTake THEN Some(0) ELSE @]

C18_NegativeCountsAreZero ==
    (Finished /\ (NegativeTake \/ NegativeDrop))
        => /\ emitted = RunToEnd(kind, source, chunks, ZeroedCounts).records
           /\ NegativeTake => emitted = << >>

\* a negative drop with a take of one: the first record is emitted
C18_Witness_NegativeDrop ==
    /\ Finished
    /\ NegativeDrop
    /\ init.take = Some(1)
    /\ Len(emitted) = 1
    /\ ranges[1][1] = 0

----------------------------------------------------------------------------
(* The planned ranges *)

\* The planner's call is over: it returned or it threw
Planned == kind = "planner" /\ sp.pc = "returned"

\* The target count N >= 1 the caller asked for
TargetCount == Max(1, DesiredChunks(init))

WellFormed(r) == 0 <= r[1] /\ r[1] <= r[2] /\ r[2] <= Len(source)

Disjoint(r, q) == r[2] <= q[1] \/ q[2] <= r[1]

\* Byte p lies in a range, or in a delimiter that ends where a range begins
Covered(p) ==
    \/ \E k \in 1..Len(ranges) : ranges[k][1] <= p /\ p < ranges[k][2]
    \/ \E k \in 1..Len(ranges) :
          /\ OccursAt(source, init.delimiter, ranges[k][1] - Len(init.delimiter))
          /\ ranges[k][1] - Len(init.delimiter) <= p
          /\ p < ranges[k][1]

\* A range begins at 0, at the end, or right after a delimiter
BeginsAfterDelimiter(b) ==
    b \in {0, Len(source)} \/ OccursAt(source, init.delimiter, b - Len(init.delimiter))

\* A range ends at the end or next to a delimiter
EndsAtDelimiter(e) ==
    \/ e \in {0, Len(source)}
    \/ OccursAt(source, init.delimiter, e)
    \/ OccursAt(source, init.delimiter, e - Len(init.delimiter))

\* C19: for a file of size S, a delimiter of length d and a target count
\* N >= 1 the planner returns at most N ranges, pairwise disjoint, that cover
\* every byte of [0, S) (the delimiters at the boundaries aside), and every
\* boundary other than 0 and S lies at a delimiter occurrence.
C19_PlannedRanges ==
    Planned =>
        /\ result = "done"
        /\ Len(ranges) <= TargetCount
        /\ \A k \in 1..Len(ranges) : WellFormed(ranges[k])
        /\ \A j, k \in 1..Len(ranges) : j < k => Disjoint(ranges[j], ranges[k])
        /\ \A p \in 0..(Len(source) - 1) : Covered(p)
        /\ \A k \in 1..Len(ranges) :
              BeginsAfterDelimiter(ranges[k][1]) /\ EndsAtDelimiter(ranges[k][2])

\* C20: for the file of 1000 bytes with line feeds at 100, 250, 500 and 750
\* and a target of three chunks the planner returns exactly the ranges
\* (0, 250), (251, 500), (501, 1000).
C20_PlannerExample ==
    (Planned /\ source = ExampleFile /\ init.delimiter = <<LineFeed>>
             /\ init.chunks = Some(3)) =>
        (result = "done" /\ ranges = <<<<0, 250>>, <<251, 500>>, <<501, 1000>>>>)

----------------------------------------------------------------------------
(* Readers over the planned ranges *)

\* The options of the readers: every record, empty ones too
ReaderInit ==
    [delimiter |-> init.delimiter, position |-> 0, skipEmpty |-> FALSE,
     drop |-> 0, take |-> None, highWaterMark |-> Some(1), autoDispose |-> None]

\* What one reader emits over the bytes src, handed over as one chunk
ReaderOutput(src) ==
    RunToEnd("async", src, IF src = << >> THEN << >> ELSE <<src>>, ReaderInit).records

RECURSIVE RangesOutput(_)
RangesOutput(rs) ==
    IF rs = << >> THEN << >>
    ELSE ReaderOutput(SubSeq(source, rs[1][1] + 1, rs[1][2])) \o RangesOutput(Tail(rs))

----------------------------------------------------------------------------
(* Column names as the claims state them *)

\* normalizeColumnNames has run on the headers
Normalized == kind = "names" /\ Len(emitted) >= 1

CanonicalName(k) == smartSnakeCase(source[k])

\* Which occurrence of its canonical name the k-th header is
Occurrence(k) == Cardinality({j \in 1..k : CanonicalName(j) = CanonicalName(k)})

\* C26: the first occurrence of a canonical name n stays n and its k-th
\* occurrence (k >= 2) stands, at the place of that occurrence, as n_k.
C26_DuplicatesByPosition ==
    Normalized =>
        /\ Len(emitted[1]) = Len(source)
        /\ \A k \in 1..Len(source) :
              emitted[1][k] = IF Occurrence(k) = 1 THEN CanonicalName(k)
                              ELSE UniqueColumnName(CanonicalName(k), Occurrence(k))

\* C27: normalizing the normalized names again changes nothing.
C27_NormalizeIdempotent ==
    (kind = "names" /\ Len(emitted) = 2) => emitted[2] = emitted[1]

\* C28: normalizeColumnNames returns one name for every header it is given.
C28_OneNamePerHeader ==
    Normalized => \A k \in 1..Len(emitted) : Len(emitted[k]) = Len(source)

----------------------------------------------------------------------------
(* Quoted fields *)

\* The delimiters of src that separate fields: those with an even number of
\* double quotes before them
Separates(src, needle, p) ==
    /\ OccursAt(src, needle, p)
    /\ Cardinality({q \in 1..p : src[q] = DoubleQuote}) % 2 = 0

\* The fields of src, byte for byte, between the separating delimiters
RECURSIVE FieldsFrom(_, _, _, _)
FieldsFrom(src, needle, start, p) ==
    IF p > Len(src) - Len(needle)
    THEN <<SubSeq(src, start + 1, Len(src))>>
    ELSE IF Separates(src, needle, p)
    THEN <<SubSeq(src, start + 1, p)>>
            \o FieldsFrom(src, needle, p + Len(needle), p + Len(needle))
    ELSE FieldsFrom(src, needle, start, p + 1)

Fields(src, needle) == FieldsFrom(src, needle, 0, 0)

\* C25: in the quote-aware column scanner a column delimiter between an
\* odd-numbered double quote and the next one does not separate, and the
\* fields are emitted byte for byte: the row "a,b",c gives "a,b" and c.
C25_QuotedFields ==
    (kind = "quoted" /\ init.delimiter = <<Comma>> /\ PlainRun /\ ~init.skipEmpty
                     /\ Finished)
        => /\ result = "done"
           /\ emitted = Fields(source, init.delimiter)
           /\ source = ExampleRow
                => emitted = <<<<DoubleQuote, 97, Comma, 98, DoubleQuote>>, <<99>>>>

----------------------------------------------------------------------------
(* Errors of the text and JSON stages *)

Staged == kind \in {"text", "json"}

\* What the spliterator under the stage emits when run by itself
StageRecords == RunToEnd(init.rows, source, chunks, init).records

\* The stage cannot decode, or parse, the record
RecordFails(record) ==
    IF kind = "text" THEN ~TextDecoder_decode(record, init.fatal).ok
    ELSE ~JSON_parse(TextDecoder_decode(record, FALSE).value).ok

FailingRecords == {k \in 1..Len(StageRecords) : RecordFails(StageRecords[k])}

\* C29: when a record cannot be decoded (text) or parsed (JSON) the stage
\* raises an error that names the zero-based index of that record among the
\* records of the spliterator under it: the number of records the stage
\* yielded before.
C29_ErrorNamesRecord ==
    Staged =>
        /\ result = "SyntaxError" =>
              /\ sp.error = Some(Len(emitted))
              /\ Len(emitted) + 1 \in FailingRecords
              /\ \A k \in 1..Len(emitted) : k \notin FailingRecords
        /\ (sp.pc = "closed" /\ FailingRecords # {}) =>
              /\ result = "SyntaxError"
              /\ sp.error = Some(SetMin(FailingRecords) - 1)

\* A stage over a spliterator that drops a record fails at its second record
C29_Witness_SecondRecordFails ==
    /\ Staged
    /\ result = "SyntaxError"
    /\ init.drop = 1
    /\ sp.error = Some(1)
    /\ Len(emitted) = 1

----------------------------------------------------------------------------
(* The search *)

Searched == kind = "search" /\ result = "done"

\* C30: when the search from p returns a position k, the delimiter stands at
\* k in the haystack and at no position of [p, k).
C30_SearchFindsFirst ==
    (Searched /\ sp.found # -1) =>
        /\ sp.found >= init.start
        /\ OccursAt(source, init.delimiter, sp.found)
        /\ \A q \in init.start..(sp.found - 1) : ~OccursAt(source, init.delimiter, q)

\* A three-byte delimiter found beyond windows that did not match
C30_Witness_FoundAfterSkips ==
    /\ Searched
    /\ Len(init.delimiter) = 3
    /\ init.start = 1
    /\ sp.found = 3

----------------------------------------------------------------------------
(* The CSV projection *)

CSV == kind \in {"csv", "csvAsync"}

\* The rows of the source as the row iterator gives them, run on its own
CSVRows == RunToEnd(init.rows, source, chunks, CSVSpliterator_rowInit(init)).records

\* The rows after the header row
DataRows == Tail(CSVRows)

\* What the projection makes of one data row
Projected(row) ==
    CSVSpliterator_emit(init.mode, CSVSpliterator_columns(init.rows, row).columns, sp.headers)

\* The number of data rows due with drop = d and take = t
DueCount ==
    LET d == CSVSpliterator_drop(init)
        left == Max(0, Len(DataRows) - d)
    IN  IF init.take = None THEN left ELSE Min(init.take[1], left)

(* C22: with header=true, drop = d and take = t, the rows the CSV           *)
(* projection emits are exactly data rows d+1 through d+t, numbered from    *)
(* the first row after the header, fewer only if the source ends first, in  *)
(* both from and fromAsync.                                                 *)
C22_DropThenTakeAfterHeader ==
    (CSV /\ init.header /\ sp.pc = "closed" /\ CSVRows # << >>)
        => emitted = [j \in 1..DueCount |->
                         Projected(DataRows[CSVSpliterator_drop(init) + j])]

\* The columns of the header row, as read
HeaderColumns == CSVSpliterator_columns(init.rows, CSVRows[1]).columns

(* C24: when normalizeKeys is not given, the header names are canonicalized *)
(* in object and entries modes and left unchanged in array mode, in both    *)
(* from and fromAsync.                                                      *)
C24_NormalizeKeysDefault ==
    (CSV /\ init.header /\ init.normalizeKeys = None /\ sp.headerRead)
        => sp.headers = IF init.mode = "array" THEN HeaderColumns
                        ELSE normalizeColumnNames(HeaderColumns)

\* Object mode under a header row
ObjectRecords == CSV /\ init.header /\ init.mode = "object"

\* The fields of the data row the j-th emitted record was made of
FieldsOf(j) ==
    CSVSpliterator_columns(init.rows, DataRows[CSVSpliterator_drop(init) + j]).columns

\* The header positions the j-th row has no field for
MissingColumns(j) == {k \in 1..Len(sp.headers) : k > Len(FieldsOf(j))}

\* The keys the fields beyond the header get
FallbackKeys(j) == {ColumnKey(k - 1) : k \in (Len(sp.headers) + 1)..Len(FieldsOf(j))}

----------------------------------------------------------------------------
(* The range queue *)

(* C36: after any sequence of enqueue, dequeue (on an empty queue too) and  *)
(* clear, the queue's byteLength is the sum of end - start over the ranges  *)
(* queued and its size is their number; empty ranges are accepted and      *)
(* weigh nothing.                                                           *)
C36_QueueTotals ==
    kind = "queue" =>
        /\ IndexQueue_byteLength(sp, init.cached) = TuplesByteLength(sp.tuples)
        /\ IndexQueue_size(sp) = Cardinality(DOMAIN sp.tuples)
        /\ \A tuple \in QueueRanges :
              tuple[1] = tuple[2] =>
                  /\ IndexQueue_size(IndexQueue_enqueue(sp, tuple)) = IndexQueue_size(sp) + 1
                  /\ IndexQueue_enqueue(sp, tuple).byteLength = sp.byteLength

\* A queue of the cached kind that has missed a dequeue, been cleared, and
\* holds an empty range behind a range of bytes
C36_Witness_MixedQueue ==
    /\ kind = "queue" /\ init.cached
    /\ history.missed /\ history.cleared
    /\ IndexQueue_size(sp) = 2
    /\ sp.tuples[1][1] < sp.tuples[1][2]
    /\ sp.tuples[2][1] = sp.tuples[2][2]

----------------------------------------------------------------------------
(* The buffer controller *)

Called(op) == kind = "buffer" /\ result.op = op

\* view is exactly the bytes [begin, end) of bytes, 0-based
ExactView(view, bytes, begin, end) ==
    /\ Len(view) = end - begin
    /\ end <= Len(bytes)
    /\ \A k \in 1..Len(view) : view[k] = bytes[begin + k]

(* C37: subarray(begin, end) raises a RangeError whenever begin > end or    *)
(* end > bytesWritten, and otherwise returns a view of exactly the bytes    *)
(* [begin, end) of the buffer.                                              *)
C37_SubarrayChecked ==
    Called("subarray") =>
        IF result.begin > result.end \/ result.end > result.before.bytesWritten
        THEN ~result.returned.ok
        ELSE /\ result.returned.ok
             /\ ExactView(result.returned.view, result.before.bytes, result.begin, result.end)

(* C38: set(src, off) writes src at offset off, growing the buffer when     *)
(* off + |src| exceeds its capacity, leaves every previously written byte   *)
(* outside [off, off + |src|) unchanged, and leaves bytesWritten equal to   *)
(* max(previous bytesWritten, off + |src|).                                 *)
C38_SetWritesAndKeeps ==
    Called("set") =>
        LET before == result.before
            off == result.offset
            nextLength == off + Len(result.array)
        IN  /\ Len(sp.bytes) = Max(Len(before.bytes), nextLength)
            /\ \A k \in 1..Len(result.array) : sp.bytes[off + k] = result.array[k]
            /\ \A k \in 1..Min(before.bytesWritten, Len(before.bytes)) :
                  (k <= off \/ k > nextLength) => sp.bytes[k] = before.bytes[k]
            /\ sp.bytesWritten = Max(before.bytesWritten, nextLength)

\* A set past the capacity, behind a byte written earlier
C38_Witness_GrowingSet ==
    /\ Called("set")
    /\ Len(sp.bytes) > Len(result.before.bytes)
    /\ result.offset >= 1
    /\ result.before.bytesWritten >= 1
    /\ result.before.bytes[1] # 0

(* C39: compress(lo, hi) leaves the buffer so that its bytes [0, hi - lo)   *)
(* are the bytes previously at [lo, hi) and bytesWritten equals             *)
(* min(previous bytesWritten, hi - lo).                                     *)
C39_CompressShifts ==
    (/\ Called("compress")
     /\ result.start # None /\ result.end # None
     /\ result.start[1] <= result.end[1]
     /\ result.end[1] <= Len(result.before.bytes))
        => LET lo == result.start[1]
               hi == result.end[1]
           IN  /\ Len(sp.bytes) >= hi - lo
               /\ \A k \in 1..(hi - lo) : sp.bytes[k] = result.before.bytes[lo + k]
               /\ sp.bytesWritten = Min(result.before.bytesWritten, hi - lo)

----------------------------------------------------------------------------
(* The search within a window *)

WindowSearched == kind = "window" /\ result = "done"

\* The positions of [lo, hi - |D|] where the delimiter stands
WindowMatchPositions ==
    {p \in init.start..(init.end - Len(init.delimiter)) : OccursAt(source, init.delimiter, p)}

(* C35: search(haystack, lo, hi) returns the not-found sentinel if and only *)
(* if there is no position p in [lo, hi - |D|] where the delimiter stands   *)
(* in the haystack; it never reports a match that extends past hi.          *)
C35_SearchWithinWindow ==
    WindowSearched =>
        /\ (sp.found = -1) <=> (WindowMatchPositions = {})
        /\ sp.found # -1 => sp.found + Len(init.delimiter) <= init.end

\* The delimiter stands in the haystack from lo on, but only past hi
C35_Witness_MatchPastEnd ==
    /\ WindowSearched
    /\ sp.found = -1
    /\ Len(init.delimiter) = 2
    /\ init.end < Len(source)
    /\ \E p \in init.start..Len(source) : OccursAt(source, init.delimiter, p)

(***************************************************************************)
(* The fill loop and the high-water mark                                   *)
(***************************************************************************)

\* A read from the source is awaited
ReadIssued == kind = "async" /\ sp.pc = "read"

\* C32: the asynchronous fill loop never issues a read from the source while
\* the total byte length of the queued ranges is at or above the high-water
\* mark
C32_NoReadAtHighWater ==
    ReadIssued => sp.indices.byteLength < sp.highWaterMark

\* The queue holds the high-water mark or more, the source has chunks left
\* that were not reported as its end, and no read is issued
C32_Witness_Backpressure ==
    /\ kind = "async"
    /\ sp.pc = "idle"
    /\ sp.lastReadResult = "value"
    /\ Len(sp.chunkReader) > 0
    /\ sp.indices.byteLength >= sp.highWaterMark
    /\ sp.indices.tuples # << >>

(***************************************************************************)
(* Compaction before a fill                                                *)
(***************************************************************************)

\* The bytes [0, bytesWritten) of a buffer
WrittenBytes(c) == SubSeq(c.bytes, 1, c.bytesWritten)

\* The buffer #fill finds when it starts: the one the call of next() began
\* with, or the one the awaited read has just appended to
BufferBeforeFill ==
    IF sp.pc = "read" THEN AsyncSpliterator_read(sp).controller ELSE sp.controller

\* This step of the iterator has cut a prefix off the buffer
Compacts ==
    /\ kind = "async"
    /\ sp'.pc = "read"
    /\ sp'.lastByteRangeSeen # None
    /\ sp'.controller.discarded # sp.controller.discarded

\* What follows the compaction: the position of the bytes kept, the count of
\* the bytes written, and the place the next chunk is written at
CompactionFrame ==
    LET before == BufferBeforeFill
        after == sp'.controller
        cut == sp'.lastByteRangeSeen[1][2] + Len(sp'.needle)
        read == AsyncSpliterator_read(sp').controller
    IN  /\ after.bytesWritten = before.bytesWritten - cut
        /\ WrittenBytes(after) = SubSeq(before.bytes, cut + 1, before.bytesWritten)
        /\ Len(sp'.chunkReader) > 0 =>
              WrittenBytes(read) = WrittenBytes(after) \o Head(sp'.chunkReader)

\* C34: when the asynchronous spliterator compacts its buffer before a fill,
\* the bytes [0, written) afterwards are the bytes that were at
\* [last emitted end + |D|, written) before, written has decreased by the
\* length of the discarded prefix, and the next chunk read is appended
\* directly after the unconsumed bytes
C34_CompactionKeepsUnconsumed == [][Compacts => CompactionFrame]_vars

(***************************************************************************)
(* Queued ranges and compaction                                            *)
(***************************************************************************)

\* The range this step took from the queue for the record it emits lies
\* within the written part of the buffer
TakenRangeWithinWritten ==
    (emitted' # emitted /\ sp'.lastByteRangeSeen # None) =>
        LET taken == sp'.lastByteRangeSeen[1]
        IN  0 <= taken[1] /\ taken[1] <= taken[2] /\ taken[2] <= sp'.controller.bytesWritten

\* A prefix of the buffer is cut off only while no range is queued
CompactsOnEmptyQueue ==
    sp'.controller.discarded # sp.controller.discarded => sp'.indices.tuples = << >>

\* C33: compaction is only invoked when the range queue is empty, every range
\* taken from the queue during asynchronous iteration satisfies
\* 0 <= start <= end <= written in the buffer's current coordinates, and
\* subarray never raises a RangeError
C33_RangesStayConsistent ==
    [][kind = "async" =>
          /\ CompactsOnEmptyQueue
          /\ TakenRangeWithinWritten
          /\ result' # "RangeError"]_vars

\* A record was taken from the queue and emitted after the buffer had been
\* compacted: its range is counted from the cut, not from the start of the
\* source
C33_Witness_TakenAfterCompaction ==
    /\ kind = "async"
    /\ result = "value"
    /\ Len(emitted) >= 2
    /\ sp.controller.discarded > 0
    /\ sp.lastByteRangeSeen # None
    /\ sp.lastByteRangeSeen[1][2] > sp.lastByteRangeSeen[1][1]
    /\ sp.lastByteRangeSeen[1][1] < sp.controller.discarded

(***************************************************************************)
(* DelimitedGenerator.from: drop and take                                  *)
(***************************************************************************)

\* The ranges the sliding window hands out from init.position on
RECURSIVE WindowRanges(_)
WindowRanges(w) ==
    LET stepped == SlidingWindow_next(w)
    IN  IF stepped.range = None
        THEN << >>
        ELSE <<stepped.range[1]>> \o WindowRanges(stepped.window)

\* The records the generator matches: those of the source from init.position
\* on, the empty ones left out when skipEmpty is set
MatchingRecords ==
    IF init.position > Len(source)
    THEN << >>
    ELSE LET all == WindowRanges(SlidingWindow_new(source, init))
             records == [k \in 1..Len(all) |-> SubArray(source, all[k][1], all[k][2])]
         IN  SelectSeq(records, LAMBDA r : ~init.skipEmpty \/ r # << >>)

\* The matching records after the first init.drop of them, init.take at most
DueRecords ==
    LET m == MatchingRecords
        last == IF init.take = None THEN Len(m) ELSE Min(Len(m), init.drop + init.take[1])
    IN  SubSeq(m, init.drop + 1, last)

\* C31: DelimitedGenerator.from with drop = d skips the first d matching
\* records and then emits the records that follow them, up to take of them;
\* the skipped records do not count towards take
C31_DropThenTake ==
    kind = "generator" =>
        /\ Len(emitted) <= Len(DueRecords)
        /\ emitted = SubSeq(DueRecords, 1, Len(emitted))
        /\ result = "done" => emitted = DueRecords

(***************************************************************************)
(* CSV columns and the fields of a row                                     *)
(***************************************************************************)

\* The rows of the source: each of them ends with a line feed
SourceRows ==
    LET pieces == Split(source, <<LineFeed>>)
    IN  SubSeq(pieces, 1, Len(pieces) - 1)

\* The fields of a row, empty ones included, decoded: k column delimiters
\* give k + 1 fields
DecodedFields(row) ==
    LET pieces == Split(row, <<Comma>>)
    IN  [j \in 1..Len(pieces) |-> TextDecoder_decode(pieces[j], FALSE).value]

\* C40: for every CSV data row the emitted columns are, one to one and in
\* order, the fields the column delimiter separates, empty fields included:
\* a row with k column delimiters yields k + 1 columns, and no row fails
C40_ColumnsAreFields ==
    (CSV /\ init.mode = "array") =>
        /\ result \notin {"TypeError", "RangeError", "SyntaxError"}
        /\ \A j \in 1..Len(emitted) :
              \E r \in 1..Len(SourceRows) : emitted[j].columns = DecodedFields(SourceRows[r])

====
